---- MODULE Spec2Model ----
(***************************************************************************)
(* A model of package lattice (src/lattice.go): the Z-order encoded        *)
(* multidimensional address Addr, its encoder New, its decoder Coords and  *)
(* the operations built on them.                                           *)
(*                                                                         *)
(* An Addr is [4]uint64.  A 64-bit word is modelled as the set of its set  *)
(* bit indices (0 = least significant), so an Addr is a function from      *)
(* 0..3 to subsets of 0..63 and Go's == on Addr is equality of functions.  *)
(* A Go slice []int is a sequence (element i of the slice is s[i+1]); the  *)
(* array [MaxDimensions]int is a function on 0..MaxDimensions-1.  A panic  *)
(* is the record of the values its message is formatted from.              *)
(***************************************************************************)
EXTENDS Integers, Sequences, FiniteSets

VARIABLES
    a,      \* the caller's receiver variable, as it is after the last call
    call,   \* the last call: operation, receiver as passed, arguments
    ret,    \* the Addr the last call returned (ZeroAddr when it panicked)
    err,    \* the panic the last call raised (NoPanic when it returned)
    prev,   \* the call of New made just before the last one, with its outcome
    chain,  \* number of transformer calls made since the last call of New
    res,    \* what the last query (At, CoordsSlice, Contains, ...) returned
    m,      \* a map[Addr]V of the caller: the set of its <<key, value>> entries
    written, \* the writes to m not deleted since: <<coords, value>> pairs
    buffer, \* a []int of the caller, passed to CoordsSlice call after call
    lst,    \* the list operations that mirror a chain of transformer calls
    threads, \* the goroutines that run calls concurrently, each with its own
            \* locals
    loop    \* the nested loops of New and Coords, run one iteration at a time

vars ==
    <<a, call, ret, err, prev, chain, res, m, written, buffer, lst,
      threads, loop>>

\* the variables only the specifications of buffers, chains, goroutines and
\* loops use
aside == <<buffer, lst, threads, loop>>

----------------------------------------------------------------------------
(* Constants of the package *)

BitsPerCoord == 20

MaxDimensions == 12

MaxCoordValue == 2^BitsPerCoord - 1

\* the literal 4 in "4 + bitPos*numDims + dimIdx": width of the header
dimsBits == 4

\* the literal 64 in "encodedBitPos / 64": bits of a uint64 word
bitsPerWord == 64

\* the length of the array type [4]uint64
AddrWords == 4

----------------------------------------------------------------------------
(* Bounds of the model *)

\* longest chain of transformer calls applied to one result of New
MaxChain == 1

\* longest argument list handed to Append
MaxExtra == 2

\* longest list of ranges of which every combination is passed to InRange
MaxRanges == 2

\* longest chain of successful transformer calls mirrored by list operations
MaxOps == 2

\* number of goroutines that run calls at the same time
NumThreads == 2

----------------------------------------------------------------------------
(* Machine integers and words *)

\* (v >> p) & 1 for a Go int v; the model's integers are below 2^31
Bit(v, p) == IF p >= 31 THEN (IF v < 0 THEN 1 ELSE 0) ELSE (v \div 2^p) % 2

\* uint64(n) for n >= 0, as the set of its set bits
Uint64(n) == {b \in 0..(bitsPerWord - 1) : Bit(n, b) = 1}

\* var addr Addr: all four words zero
ZeroAddr == [w \in 0..(AddrWords - 1) |-> {}]

\* the mask 0xF of Dims
dimsMask == {0, 1, 2, 3}

----------------------------------------------------------------------------
(* Panics *)

\* A panic is a record of its message's parts. The panic definitions are
\* ordered so that every record is written with its fields in the order they
\* first appear in the module, which is the order TLC sorts them into: the
\* values New returns are computed once and shared by TLC's workers, and are
\* never reordered in place.
NoPanic == [kind |-> "none"]

PanicCoord(i, v) ==
    [kind |-> "coord out of range", index |-> i, value |-> v,
     max |-> MaxCoordValue]

PanicMaxDims == [kind |-> "max dimensions", max |-> MaxDimensions]

PanicBuf(need, got) == [kind |-> "buf too small", need |-> need, got |-> got]

PanicSlice(from, to, dims) ==
    [kind |-> "slice out of range", from |-> from, to |-> to, dims |-> dims]

PanicIndex(i, dims) ==
    [kind |-> "dimension index out of range", index |-> i, dims |-> dims]

\* the Go runtime's panic on an array index outside the array
PanicRuntime == [kind |-> "runtime error: index out of range"]

----------------------------------------------------------------------------
(* The encoder *)

\* a plausible slip: the fixed stride of a classic Morton code
EncodedBitPosFixedStride(bitPos, numDims, dimIdx) ==
    dimsBits + bitPos * MaxDimensions + dimIdx

\* encodedBitPos := 4 + bitPos*numDims + dimIdx
EncodedBitPos(bitPos, numDims, dimIdx) == dimsBits + bitPos * numDims + dimIdx

\* arrayIdx := encodedBitPos / 64
ArrayIdx(encodedBitPos) == encodedBitPos \div bitsPerWord

\* bitInWord := encodedBitPos % 64
BitInWord(encodedBitPos) == encodedBitPos % bitsPerWord

\* the offsets at which the two nested loops of New find bit == 1
SetPositions(coords) ==
    LET numDims == Len(coords)
    IN  UNION {{EncodedBitPos(bitPos, numDims, dimIdx) :
                    bitPos \in {p \in 0..(BitsPerCoord - 1) :
                                    Bit(coords[dimIdx + 1], p) = 1}} :
               dimIdx \in 0..(numDims - 1)}

\* a plausible slip: the header word is never written
EncodeNoHeader(coords) ==
    LET set == SetPositions(coords)
    IN  [w \in 0..(AddrWords - 1) |->
            {BitInWord(q) : q \in {r \in set : ArrayIdx(r) = w}}]

\* addr[0] = uint64(len(coords)), then addr[arrayIdx] |= 1 << bitInWord for
\* every offset of SetPositions
Encode(coords) ==
    LET set == SetPositions(coords)
    IN  [w \in 0..(AddrWords - 1) |->
            (IF w = 0 THEN Uint64(Len(coords)) ELSE {})
                \cup {BitInWord(q) : q \in {r \in set : ArrayIdx(r) = w}}]

\* for i, v := range coords { if v < 0 || v > MaxCoordValue { panic } }
OutOfRange(coords) ==
    {i \in 0..(Len(coords) - 1) :
        coords[i + 1] < 0 \/ coords[i + 1] > MaxCoordValue}

\* a plausible slip: the loop keeps the last offender it meets
LastOutOfRange(coords) ==
    CHOOSE i \in OutOfRange(coords) : \A j \in OutOfRange(coords) : i >= j

\* the index at which the validation loop of New stops
FirstOutOfRange(coords) ==
    CHOOSE i \in OutOfRange(coords) : \A j \in OutOfRange(coords) : i <= j

\* a plausible slip: the coordinates are validated before the length
NewCoordsFirst(coords) ==
    IF OutOfRange(coords) # {}
    THEN [panic |-> PanicCoord(FirstOutOfRange(coords),
                               coords[FirstOutOfRange(coords) + 1]),
          addr |-> ZeroAddr]
    ELSE IF Len(coords) > MaxDimensions
    THEN [panic |-> PanicMaxDims, addr |-> ZeroAddr]
    ELSE [panic |-> NoPanic, addr |-> Encode(coords)]

\* a plausible slip: the length is never checked
NewNoDimensionLimit(coords) ==
    IF OutOfRange(coords) # {}
    THEN [panic |-> PanicCoord(FirstOutOfRange(coords),
                               coords[FirstOutOfRange(coords) + 1]),
          addr |-> ZeroAddr]
    ELSE IF \E q \in SetPositions(coords) : ArrayIdx(q) >= AddrWords
    THEN [panic |-> PanicRuntime, addr |-> ZeroAddr]
    ELSE [panic |-> NoPanic, addr |-> Encode(coords)]

\* func New(coords ...int) Addr
New(coords) ==
    IF Len(coords) > MaxDimensions
    THEN [panic |-> PanicMaxDims, addr |-> ZeroAddr]
    ELSE IF OutOfRange(coords) # {}
    THEN [panic |-> PanicCoord(FirstOutOfRange(coords),
                               coords[FirstOutOfRange(coords) + 1]),
          addr |-> ZeroAddr]
    ELSE IF \E q \in SetPositions(coords) : ArrayIdx(q) >= AddrWords
    THEN [panic |-> PanicRuntime, addr |-> ZeroAddr]
    ELSE [panic |-> NoPanic, addr |-> Encode(coords)]

----------------------------------------------------------------------------
(* The decoder *)

\* func (a Addr) Dims() int { return int(a[0] & 0xF) }
Dims(addr) ==
    LET h == addr[0] \cap dimsMask
    IN  (IF 0 \in h THEN 1 ELSE 0) + (IF 1 \in h THEN 2 ELSE 0)
          + (IF 2 \in h THEN 4 ELSE 0) + (IF 3 \in h THEN 8 ELSE 0)

\* a plausible slip: the payload is read from offset 0, over the header
CoordsBitPosNoHeader(bitPos, dims, dimIdx) == bitPos * dims + dimIdx

\* encodedBitPos := 4 + bitPos*dims + dimIdx, in Coords
CoordsBitPos(bitPos, dims, dimIdx) == dimsBits + bitPos * dims + dimIdx

\* (a[arrayIdx]>>bitInWord)&1 == 1, for an offset inside the four words
TestBit(addr, encodedBitPos) ==
    BitInWord(encodedBitPos) \in addr[ArrayIdx(encodedBitPos)]

\* coords[dimIdx] after the loop of Coords: acc[n] is its value once the
\* iterations bitPos < n have run (coords[dimIdx] |= 1 << bitPos adds 2^bitPos
\* to a value whose bit bitPos is still clear)
DecodeCoord(addr, dims, dimIdx) ==
    LET acc[n \in 0..BitsPerCoord] ==
            IF n = 0
            THEN 0
            ELSE acc[n - 1]
                   + (IF TestBit(addr, CoordsBitPos(n - 1, dims, dimIdx))
                      THEN 2^(n - 1) ELSE 0)
    IN  acc[BitsPerCoord]

\* the loop of Coords indexes a[arrayIdx] for every (bitPos, dimIdx) and
\* coords[dimIdx] where the bit is set: TRUE when one of these is outside
\* its array
CoordsOutOfBounds(addr) ==
    LET dims == Dims(addr)
    IN  \E bitPos \in 0..(BitsPerCoord - 1), dimIdx \in 0..(dims - 1) :
            \/ ArrayIdx(CoordsBitPos(bitPos, dims, dimIdx)) >= AddrWords
            \/ /\ dimIdx >= MaxDimensions
               /\ TestBit(addr, CoordsBitPos(bitPos, dims, dimIdx))

\* func (a Addr) Coords() ([MaxDimensions]int, int)
Coords(addr) ==
    LET dims == Dims(addr)
    IN  IF CoordsOutOfBounds(addr)
        THEN [panic |-> PanicRuntime,
              coords |-> [i \in 0..(MaxDimensions - 1) |-> 0], dims |-> dims]
        ELSE [panic |-> NoPanic,
              coords |-> [i \in 0..(MaxDimensions - 1) |->
                            IF i < dims THEN DecodeCoord(addr, dims, i)
                            ELSE 0],
              dims |-> dims]

\* the first n elements of a [MaxDimensions]int as a slice
ArrayPrefix(arr, n) == [k \in 1..n |-> arr[k - 1]]

\* a plausible slip: the decoded forms are compared instead of the words
EqualDecoded(addr, bAddr) ==
    /\ Dims(addr) = Dims(bAddr)
    /\ Coords(addr).coords = Coords(bAddr).coords

\* func (a Addr) Equal(bAddr Addr) bool { return a == bAddr }
Equal(addr, bAddr) == addr = bAddr

----------------------------------------------------------------------------
(* The transformers *)

\* a plausible slip: the extra coordinates are put in front of the receiver's
AppendDecodedInFront(ac, coords) ==
    IF ac.panic # NoPanic
    THEN [panic |-> ac.panic, addr |-> ZeroAddr]
    ELSE New(coords \o ArrayPrefix(ac.coords, ac.dims))

\* a plausible slip: the result is encoded without the validation of New
AppendDecodedUnchecked(ac, coords) ==
    IF ac.panic # NoPanic
    THEN [panic |-> ac.panic, addr |-> ZeroAddr]
    ELSE [panic |-> NoPanic,
          addr |-> Encode(ArrayPrefix(ac.coords, ac.dims) \o coords)]

\* a plausible slip: the extra coordinates are validated on their own, so the
\* panic reports the position within coords
AppendDecodedOwnIndex(ac, coords) ==
    IF ac.panic # NoPanic
    THEN [panic |-> ac.panic, addr |-> ZeroAddr]
    ELSE IF Len(coords) <= MaxDimensions /\ New(coords).panic # NoPanic
    THEN New(coords)
    ELSE New(ArrayPrefix(ac.coords, ac.dims) \o coords)

\* Append after ac, dims := a.Coords()
AppendDecoded(ac, coords) ==
    IF ac.panic # NoPanic
    THEN [panic |-> ac.panic, addr |-> ZeroAddr]
    ELSE New(ArrayPrefix(ac.coords, ac.dims) \o coords)

\* func (a Addr) Append(coords ...int) Addr (Append names an operator of
\* Sequences)
AddrAppend(addr, coords) ==
    AppendDecoded(Coords(addr), coords)

\* a plausible slip: toAddr >= dims instead of toAddr > dims
SliceDecodedOffByOne(ac, fromAddr, toAddr) ==
    IF ac.panic # NoPanic
    THEN [panic |-> ac.panic, addr |-> ZeroAddr]
    ELSE IF fromAddr < 0 \/ toAddr >= ac.dims \/ fromAddr > toAddr
    THEN [panic |-> PanicSlice(fromAddr, toAddr, ac.dims), addr |-> ZeroAddr]
    ELSE New([k \in 1..(toAddr - fromAddr) |-> ac.coords[fromAddr + k - 1]])

\* a plausible slip: coords[i] = aCoords[i], without the offset fromAddr
SliceDecodedFromStart(ac, fromAddr, toAddr) ==
    IF ac.panic # NoPanic
    THEN [panic |-> ac.panic, addr |-> ZeroAddr]
    ELSE IF fromAddr < 0 \/ toAddr > ac.dims \/ fromAddr > toAddr
    THEN [panic |-> PanicSlice(fromAddr, toAddr, ac.dims), addr |-> ZeroAddr]
    ELSE New([k \in 1..(toAddr - fromAddr) |-> ac.coords[k - 1]])

\* Slice after aCoords, dims := a.Coords()
SliceDecoded(ac, fromAddr, toAddr) ==
    IF ac.panic # NoPanic
    THEN [panic |-> ac.panic, addr |-> ZeroAddr]
    ELSE IF fromAddr < 0 \/ toAddr > ac.dims \/ fromAddr > toAddr
    THEN [panic |-> PanicSlice(fromAddr, toAddr, ac.dims), addr |-> ZeroAddr]
    ELSE New([k \in 1..(toAddr - fromAddr) |-> ac.coords[fromAddr + k - 1]])

\* func (a Addr) Slice(fromAddr, toAddr int) Addr
Slice(addr, fromAddr, toAddr) ==
    SliceDecoded(Coords(addr), fromAddr, toAddr)

\* a plausible slip: the value is always stored in the first coordinate
WithDecodedFirst(ac, dimIdx, value) ==
    IF ac.panic # NoPanic
    THEN [panic |-> ac.panic, addr |-> ZeroAddr]
    ELSE IF dimIdx < 0 \/ dimIdx >= ac.dims
    THEN [panic |-> PanicIndex(dimIdx, ac.dims), addr |-> ZeroAddr]
    ELSE New([ArrayPrefix(ac.coords, ac.dims) EXCEPT ![1] = value])

\* a plausible slip: the value is validated before the index
WithDecodedValueFirst(ac, dimIdx, value) ==
    IF ac.panic # NoPanic
    THEN [panic |-> ac.panic, addr |-> ZeroAddr]
    ELSE IF value < 0 \/ value > MaxCoordValue
    THEN [panic |-> PanicCoord(dimIdx, value), addr |-> ZeroAddr]
    ELSE IF dimIdx < 0 \/ dimIdx >= ac.dims
    THEN [panic |-> PanicIndex(dimIdx, ac.dims), addr |-> ZeroAddr]
    ELSE New([ArrayPrefix(ac.coords, ac.dims) EXCEPT ![dimIdx + 1] = value])

\* a plausible slip: the receiver's coordinates are not copied into the new
\* list, which holds the value and zeros
WithDecodedNoCopy(ac, dimIdx, value) ==
    IF ac.panic # NoPanic
    THEN [panic |-> ac.panic, addr |-> ZeroAddr]
    ELSE IF dimIdx < 0 \/ dimIdx >= ac.dims
    THEN [panic |-> PanicIndex(dimIdx, ac.dims), addr |-> ZeroAddr]
    ELSE New([k \in 1..ac.dims |-> IF k = dimIdx + 1 THEN value ELSE 0])

\* With after aCoords, dims := a.Coords()
WithDecoded(ac, dimIdx, value) ==
    IF ac.panic # NoPanic
    THEN [panic |-> ac.panic, addr |-> ZeroAddr]
    ELSE IF dimIdx < 0 \/ dimIdx >= ac.dims
    THEN [panic |-> PanicIndex(dimIdx, ac.dims), addr |-> ZeroAddr]
    ELSE New([ArrayPrefix(ac.coords, ac.dims) EXCEPT ![dimIdx + 1] = value])

\* func (a Addr) With(dimIdx int, value int) Addr
With(addr, dimIdx, value) ==
    WithDecoded(Coords(addr), dimIdx, value)

\* a plausible slip: a pointer receiver that stores the result in place
ReceiverOverwritten(addr, result) == result

\* Append, Slice and With have the value receiver (a Addr): the method works
\* on a copy, and the caller's variable is after the call what it was before
ReceiverAfter(addr, result) == addr

----------------------------------------------------------------------------
(* The queries.  Each returns the panic it raises and the value it returns *)

\* a plausible slip: dimIdx > dims instead of dimIdx >= dims
AtDecodedOffByOne(ac, dimIdx) ==
    IF ac.panic # NoPanic
    THEN [panic |-> ac.panic, result |-> 0]
    ELSE IF dimIdx < 0 \/ dimIdx > ac.dims
    THEN [panic |-> PanicIndex(dimIdx, ac.dims), result |-> 0]
    ELSE IF dimIdx >= MaxDimensions
    THEN [panic |-> PanicRuntime, result |-> 0]
    ELSE [panic |-> NoPanic, result |-> ac.coords[dimIdx]]

\* At after ac, dims := a.Coords()
AtDecoded(ac, dimIdx) ==
    IF ac.panic # NoPanic
    THEN [panic |-> ac.panic, result |-> 0]
    ELSE IF dimIdx < 0 \/ dimIdx >= ac.dims
    THEN [panic |-> PanicIndex(dimIdx, ac.dims), result |-> 0]
    ELSE [panic |-> NoPanic, result |-> ac.coords[dimIdx]]

\* func (a Addr) At(dimIdx int) int
At(addr, dimIdx) == AtDecoded(Coords(addr), dimIdx)

\* a plausible slip: the buffer is filled but returned at its full length
CoordsSliceDecodedWholeBuf(ac, buf) ==
    IF ac.panic # NoPanic
    THEN [panic |-> ac.panic, result |-> << >>]
    ELSE IF Len(buf) < ac.dims
    THEN [panic |-> PanicBuf(ac.dims, Len(buf)), result |-> << >>]
    ELSE [panic |-> NoPanic,
          result |-> [k \in 1..Len(buf) |->
                        IF k <= ac.dims THEN ac.coords[k - 1] ELSE buf[k]]]

\* CoordsSlice after coords, dims := a.Coords(): buf = buf[:dims], then
\* buf[i] = coords[i] for every i < dims
CoordsSliceDecoded(ac, buf) ==
    IF ac.panic # NoPanic
    THEN [panic |-> ac.panic, result |-> << >>]
    ELSE IF Len(buf) < ac.dims
    THEN [panic |-> PanicBuf(ac.dims, Len(buf)), result |-> << >>]
    ELSE [panic |-> NoPanic,
          result |-> [k \in 1..ac.dims |-> ac.coords[k - 1]]]

\* func (a Addr) CoordsSlice(buf []int) []int
CoordsSlice(addr, buf) == CoordsSliceDecoded(Coords(addr), buf)

\* a plausible slip: the loop starts at 1, for i := 1; i < dims; i++
CoordsSliceStoresFromOne(ac, buf) ==
    IF ac.panic # NoPanic \/ Len(buf) < ac.dims
    THEN buf
    ELSE [k \in 1..Len(buf) |->
            IF 1 < k /\ k <= ac.dims THEN ac.coords[k - 1] ELSE buf[k]]

\* a plausible slip: copy(buf, coords[:]) in place of the loop, which stores
\* the padding of the array too
CoordsSliceStoresPadding(ac, buf) ==
    IF ac.panic # NoPanic \/ Len(buf) < ac.dims
    THEN buf
    ELSE [k \in 1..Len(buf) |->
            IF k <= MaxDimensions THEN ac.coords[k - 1] ELSE buf[k]]

\* the backing array of buf after CoordsSlice: buf[i] = coords[i] for every
\* i < dims, and nothing when the call panics (the check precedes the loop)
CoordsSliceStores(ac, buf) ==
    IF ac.panic # NoPanic \/ Len(buf) < ac.dims
    THEN buf
    ELSE [k \in 1..Len(buf) |->
            IF k <= ac.dims THEN ac.coords[k - 1] ELSE buf[k]]

\* the slice CoordsSlice returns, buf[:dims]: elements low to high - 1 of the
\* backing array of buf
CoordsSliceReturns(ac, buf) == [low |-> 0, high |-> ac.dims]

\* the elements of slice s of the backing array arr
ReadSlice(s, arr) == SubSeq(arr, s.low + 1, s.high)

\* the loop of Contains: same[i] is what the loop returns once it has reached
\* index i without returning
ContainsLoop(aCoords, bCoords, aDims) ==
    LET same[i \in 0..aDims] ==
            IF i >= aDims THEN TRUE
            ELSE IF aCoords[i] # bCoords[i] THEN FALSE
            ELSE same[i + 1]
    IN  same[0]

\* a plausible slip: the test aDims > bDims is left out
ContainsNoDimsCheck(addr, bAddr) ==
    LET ac == Coords(addr)
        bc == Coords(bAddr)
    IN  IF ac.panic # NoPanic THEN [panic |-> ac.panic, result |-> FALSE]
        ELSE IF bc.panic # NoPanic THEN [panic |-> bc.panic, result |-> FALSE]
        ELSE [panic |-> NoPanic,
              result |-> ContainsLoop(ac.coords, bc.coords, Dims(addr))]

\* a plausible slip: the test on the dimensions is turned around
ContainsDecodedReversed(aDims, bDims, ac, bc) ==
    IF aDims < bDims
    THEN [panic |-> NoPanic, result |-> FALSE]
    ELSE IF ac.panic # NoPanic
    THEN [panic |-> ac.panic, result |-> FALSE]
    ELSE IF bc.panic # NoPanic
    THEN [panic |-> bc.panic, result |-> FALSE]
    ELSE [panic |-> NoPanic,
          result |-> ContainsLoop(ac.coords, bc.coords, aDims)]

\* Contains after aDims := a.Dims(), bDims := bAddr.Dims(), with ac and bc
\* what a.Coords() and bAddr.Coords() give once the test on the dimensions
\* has passed
ContainsDecoded(aDims, bDims, ac, bc) ==
    IF aDims > bDims
    THEN [panic |-> NoPanic, result |-> FALSE]
    ELSE IF ac.panic # NoPanic
    THEN [panic |-> ac.panic, result |-> FALSE]
    ELSE IF bc.panic # NoPanic
    THEN [panic |-> bc.panic, result |-> FALSE]
    ELSE [panic |-> NoPanic,
          result |-> ContainsLoop(ac.coords, bc.coords, aDims)]

\* func (a Addr) Contains(bAddr Addr) bool
Contains(addr, bAddr) ==
    ContainsDecoded(Dims(addr), Dims(bAddr), Coords(addr), Coords(bAddr))

\* a plausible slip: exclusive bounds
InRangeLoopExclusive(aCoords, dims, ranges) ==
    LET inside[index \in 0..Len(ranges)] ==
            IF index >= Len(ranges) THEN TRUE
            ELSE IF index >= dims THEN TRUE
            ELSE IF ranges[index + 1][1] # -1
                    /\ aCoords[index] <= ranges[index + 1][1] THEN FALSE
            ELSE IF ranges[index + 1][2] # -1
                    /\ aCoords[index] >= ranges[index + 1][2] THEN FALSE
            ELSE inside[index + 1]
    IN  inside[0]

\* the loop of InRange over ranges (a range [2]int{min, max} is the pair
\* <<min, max>>): inside[index] is what the loop returns once it has reached
\* index without returning; it breaks at index >= dims
InRangeLoop(aCoords, dims, ranges) ==
    LET inside[index \in 0..Len(ranges)] ==
            IF index >= Len(ranges) THEN TRUE
            ELSE IF index >= dims THEN TRUE
            ELSE IF ranges[index + 1][1] # -1
                    /\ aCoords[index] < ranges[index + 1][1] THEN FALSE
            ELSE IF ranges[index + 1][2] # -1
                    /\ aCoords[index] > ranges[index + 1][2] THEN FALSE
            ELSE inside[index + 1]
    IN  inside[0]

\* func (a Addr) InRange(ranges ...[2]int) bool
InRange(addr, ranges) ==
    LET ac == Coords(addr)
    IN  IF ac.panic # NoPanic THEN [panic |-> ac.panic, result |-> FALSE]
        ELSE [panic |-> NoPanic,
              result |-> InRangeLoop(ac.coords, ac.dims, ranges)]

\* a plausible slip: the address is compared with the zero value Addr{}
IsZeroDecodedWords(addr, ac) ==
    IF ac.panic # NoPanic THEN [panic |-> ac.panic, result |-> FALSE]
    ELSE [panic |-> NoPanic, result |-> (addr = ZeroAddr)]

\* IsZero after coords, dims := a.Coords(): zero[i] is what the loop returns
\* once it has reached index i without returning
IsZeroDecoded(addr, ac) ==
    IF ac.panic # NoPanic THEN [panic |-> ac.panic, result |-> FALSE]
    ELSE LET zero[i \in 0..ac.dims] ==
                 IF i >= ac.dims THEN TRUE
                 ELSE IF ac.coords[i] # 0 THEN FALSE
                 ELSE zero[i + 1]
         IN  [panic |-> NoPanic, result |-> zero[0]]

\* func (a Addr) IsZero() bool
IsZero(addr) == IsZeroDecoded(addr, Coords(addr))

\* the ten decimal digits as characters; a Go string is the sequence of its
\* characters
Digits == <<"0", "1", "2", "3", "4", "5", "6", "7", "8", "9">>

\* the verb %v of fmt on an int n >= 0: its decimal digits, without sign or
\* padding
FormatInt(n) ==
    LET dec[q \in 0..n] ==
            IF q < 10
            THEN <<Digits[q + 1]>>
            ELSE dec[q \div 10] \o <<Digits[(q % 10) + 1]>>
    IN  dec[n]

\* the verb %v of fmt on a []int: the elements between brackets, one space
\* between two elements
FormatSlice(s) ==
    LET upTo[k \in 0..Len(s)] ==
            IF k = 0 THEN << >>
            ELSE upTo[k - 1] \o (IF k = 1 THEN << >> ELSE <<" ">>)
                             \o FormatInt(s[k])
    IN  <<"[">> \o upTo[Len(s)] \o <<"]">>

\* a plausible slip: the whole buffer is formatted, not the slice returned
StringFromWholeBuf(cs, buf) ==
    IF cs.panic # NoPanic
    THEN [panic |-> cs.panic, result |-> << >>]
    ELSE [panic |-> NoPanic,
          result |-> <<"A", "d", "d", "r">>
                        \o FormatSlice([k \in 1..Len(buf) |->
                                           IF k <= Len(cs.result)
                                           THEN cs.result[k] ELSE buf[k]])]

\* fmt.Sprintf("Addr%v", a.CoordsSlice(buf[:])), for cs the outcome of the
\* call of CoordsSlice
StringFrom(cs, buf) ==
    IF cs.panic # NoPanic
    THEN [panic |-> cs.panic, result |-> << >>]
    ELSE [panic |-> NoPanic,
          result |-> <<"A", "d", "d", "r">> \o FormatSlice(cs.result)]

\* var buf [MaxDimensions]int, as the slice buf[:]
StringBuf == [k \in 1..MaxDimensions |-> 0]

\* func (a Addr) String() string
String(addr) == StringFrom(CoordsSlice(addr, StringBuf), StringBuf)

----------------------------------------------------------------------------
(* Inputs *)

\* coordinate values: both ends of [0, MaxCoordValue], their neighbours
\* outside the range, and a value with a single bit set
CoordVals == {-1, 0, 1, MaxCoordValue, MaxCoordValue + 1}

\* the sequence v, w, v, w, ... of length n
Pattern(n, v, w) == [k \in 1..n |-> IF k % 2 = 1 THEN v ELSE w]

\* the pairs v, w of the argument lists of New: the values in range two by
\* two, and an out-of-range value in the first place, in the second, in both
ValPairs ==
    ({0, 1, MaxCoordValue} \X {0, MaxCoordValue})
        \cup {<<-1, 0>>, <<MaxCoordValue + 1, MaxCoordValue>>, <<0, -1>>,
              <<MaxCoordValue, MaxCoordValue + 1>>, <<-1, MaxCoordValue + 1>>}

\* argument lists of New for the encoder on its own: every length up to one
\* past MaxDimensions
NewArgs ==
    {Pattern(n, vw[1], vw[2]) : n \in 0..(MaxDimensions + 1), vw \in ValPairs}

\* argument lists of New that start a chain of transformer calls: the
\* shortest, a middle and the longest lengths, one list that is too long and
\* one with a coordinate out of range
SeedArgs ==
    {Pattern(n, MaxCoordValue, 1) :
        n \in {0, 1, 2, 3, 7, MaxDimensions - 1, MaxDimensions,
               MaxDimensions + 1}}
        \cup {Pattern(2, 0, 0), Pattern(2, 1, -1)}

\* argument lists of Append
AppendArgs ==
    {Pattern(n, v, w) :
        n \in 0..MaxExtra, v \in CoordVals, w \in {0, MaxCoordValue}}
        \cup {<<0, -1>>, <<1, MaxCoordValue + 1>>}

\* index arguments for a receiver: both ends of [0, Dims] and their neighbours
IdxArgs(addr) ==
    {-1, 0, 1, Dims(addr) - 1, Dims(addr), Dims(addr) + 1}

\* argument lists of New for the queries: the empty list, lists of zeros,
\* lists that are prefixes of one another, lists that differ in one place,
\* and full lists of MaxDimensions coordinates
QueryArgs ==
    {<< >>, <<0>>, <<0, 0>>, <<1>>, <<1, 2>>, <<1, 2, 3>>, <<1, 3>>,
     <<MaxCoordValue>>, Pattern(MaxDimensions - 1, MaxCoordValue, 1),
     Pattern(MaxDimensions, MaxCoordValue, 1), Pattern(MaxDimensions, 0, 0)}

\* buffers for CoordsSlice: shorter than, as long as and longer than the
\* dimensions of the receiver, filled with a value that is no coordinate
BufArgs(addr) ==
    {[k \in 1..n |-> 7] :
        n \in {0, Dims(addr) - 1, Dims(addr), Dims(addr) + 1,
                MaxDimensions} \cap (0..(MaxDimensions + 1))}

\* one range [2]int{min, max}: the wildcard, one wildcard bound, a single
\* value, an interval, an empty interval, negative bounds other than -1
RangePairs ==
    {<<-1, -1>>, <<-1, 1>>, <<2, -1>>, <<0, 0>>, <<1, 2>>, <<3, 1>>,
     <<-2, -2>>, <<MaxCoordValue, MaxCoordValue>>}

\* argument lists of InRange: every list of at most MaxRanges ranges, and
\* the lists of wildcards up to one longer than MaxDimensions
RangeArgs ==
    UNION {[1..n -> RangePairs] : n \in 0..MaxRanges}
        \cup {[k \in 1..n |-> <<-1, -1>>] : n \in 0..(MaxDimensions + 1)}

\* argument lists of New for the addresses compared with those of a chain:
\* prefixes of the seeds, lists of zeros, a list that differs from the seeds
ThirdArgs ==
    {<< >>, <<0>>, <<0, 0>>, <<MaxCoordValue>>, <<MaxCoordValue, 1>>,
     <<MaxCoordValue, 1, MaxCoordValue>>, <<MaxCoordValue, 0>>}

\* an Addr that no call of New returns: addr with its highest bit set
Dirty(addr) == [addr EXCEPT ![AddrWords - 1] = @ \cup {bitsPerWord - 1}]

----------------------------------------------------------------------------
(* The state machine: a caller making one call after another.  A panic      *)
(* unwinds the caller, which then holds no address and starts again with    *)
(* New.                                                                     *)

Transformers == {"Append", "Slice", "With"}

\* no query has been made yet
NoResult == "none"

\* no chain of transformer calls is mirrored
NoList == [base |-> << >>, ops |-> << >>, now |-> << >>]

\* no loop is running
NoLoop == [pc |-> "idle"]

\* var a Addr: the caller starts with the zero value
Init ==
    /\ a = ZeroAddr
    /\ call = [op |-> "none"]
    /\ ret = ZeroAddr
    /\ err = NoPanic
    /\ prev = [op |-> "none"]
    /\ chain = 0
    /\ res = NoResult
    /\ m = {}
    /\ written = {}
    /\ buffer = << >>
    /\ lst = NoList
    /\ threads = << >>
    /\ loop = NoLoop

\* the last call and its outcome, when it was a call of New
LastNew ==
    IF call.op = "New"
    THEN [op |-> "New", coords |-> call.coords, ret |-> ret, err |-> err]
    ELSE [op |-> "none"]

\* addr := New(coords...); keep says whether the caller keeps the outcome of
\* the call before
DoNew(coords, keep) ==
    \E out \in {New(coords)} :
        /\ call' = [op |-> "New", coords |-> coords]
        /\ ret' = out.addr
        /\ err' = out.panic
        /\ a' = ZeroAddr
        /\ prev' = IF keep THEN LastNew ELSE [op |-> "none"]
        /\ chain' = 0
        /\ res' = NoResult
        /\ UNCHANGED <<m, written, aside>>

\* a call of New that starts a chain of transformer calls
CallNew ==
    \E coords \in SeedArgs : DoNew(coords, FALSE)

\* b := a.Append(coords...), on the address the last call returned
CallAppend ==
    /\ err = NoPanic
    /\ chain < MaxChain
    /\ \E coords \in AppendArgs :
        \E out \in {AddrAppend(ret, coords)} :
            /\ call' = [op |-> "Append", recv |-> ret, coords |-> coords]
            /\ ret' = out.addr
            /\ err' = out.panic
            /\ a' = ReceiverAfter(ret, out.addr)
            /\ prev' = [op |-> "none"]
            /\ chain' = chain + 1
            /\ UNCHANGED <<res, m, written, aside>>

\* b := a.Slice(fromAddr, toAddr)
CallSlice ==
    /\ err = NoPanic
    /\ chain < MaxChain
    /\ \E fromAddr \in IdxArgs(ret), toAddr \in IdxArgs(ret) :
        \E out \in {Slice(ret, fromAddr, toAddr)} :
            /\ call' = [op |-> "Slice", recv |-> ret,
                        from |-> fromAddr, to |-> toAddr]
            /\ ret' = out.addr
            /\ err' = out.panic
            /\ a' = ReceiverAfter(ret, out.addr)
            /\ prev' = [op |-> "none"]
            /\ chain' = chain + 1
            /\ UNCHANGED <<res, m, written, aside>>

\* b := a.With(dimIdx, value)
CallWith ==
    /\ err = NoPanic
    /\ chain < MaxChain
    /\ \E dimIdx \in IdxArgs(ret), value \in CoordVals :
        \E out \in {With(ret, dimIdx, value)} :
            /\ call' = [op |-> "With", recv |-> ret,
                        dimIdx |-> dimIdx, value |-> value]
            /\ ret' = out.addr
            /\ err' = out.panic
            /\ a' = ReceiverAfter(ret, out.addr)
            /\ prev' = [op |-> "none"]
            /\ chain' = chain + 1
            /\ UNCHANGED <<res, m, written, aside>>

Next == CallNew \/ CallAppend \/ CallSlice \/ CallWith

Spec == Init /\ [][Next]_vars

\* the encoder on its own: one call of New after another
CallNewAny ==
    \E coords \in NewArgs : DoNew(coords, TRUE)

NextNew == CallNewAny

SpecNew == Init /\ [][NextNew]_vars

\* the caller holds an address: the zero value it started with, or the one
\* the last call of New returned
QueryReady == err = NoPanic /\ call.op \in {"none", "New"}

\* the coordinates the held address was built from (New() and the zero value
\* are the same address)
Built == IF call.op = "New" THEN call.coords ELSE << >>

\* the second address the caller holds: the one the call of New before the
\* last returned, or the zero value
OtherAddr ==
    IF prev.op = "New" /\ prev.err = NoPanic THEN prev.ret ELSE ZeroAddr

\* the coordinates OtherAddr was built from
OtherBuilt ==
    IF prev.op = "New" /\ prev.err = NoPanic THEN prev.coords ELSE << >>

\* a query on the held address: it returns out.result or panics, and leaves
\* the receiver, a value, as it was
DoQuery(c, out) ==
    /\ call' = c
    /\ res' = out.result
    /\ err' = out.panic
    /\ a' = ReceiverAfter(ret, ret)
    /\ UNCHANGED <<ret, prev, chain, m, written, aside>>

\* v := a.At(dimIdx)
CallAt ==
    /\ QueryReady
    /\ \E dimIdx \in IdxArgs(ret) :
        DoQuery([op |-> "At", recv |-> ret, built |-> Built,
                 dimIdx |-> dimIdx],
                At(ret, dimIdx))

\* s := a.CoordsSlice(buf)
CallCoordsSlice ==
    /\ QueryReady
    /\ \E buf \in BufArgs(ret) :
        DoQuery([op |-> "CoordsSlice", recv |-> ret, built |-> Built,
                 buf |-> buf],
                CoordsSlice(ret, buf))

\* ok := a.Contains(b)
CallContains ==
    /\ QueryReady
    /\ DoQuery([op |-> "Contains", recv |-> ret, built |-> Built,
                other |-> OtherAddr, otherBuilt |-> OtherBuilt],
               Contains(ret, OtherAddr))

\* ok := a.InRange(ranges...)
CallInRange ==
    /\ QueryReady
    /\ \E ranges \in RangeArgs :
        DoQuery([op |-> "InRange", recv |-> ret, built |-> Built,
                 ranges |-> ranges],
                InRange(ret, ranges))

\* ok := a.IsZero()
CallIsZero ==
    /\ QueryReady
    /\ DoQuery([op |-> "IsZero", recv |-> ret, built |-> Built,
                zeroValue |-> (call.op = "none")],
               IsZero(ret))

\* ok := a.Equal(b), for b the other address held, a itself, and an address
\* that differs from a in one bit outside the coordinates
CallEqual ==
    /\ QueryReady
    /\ \E bAddr \in {OtherAddr, ret, Dirty(ret)} :
        DoQuery([op |-> "Equal", recv |-> ret, built |-> Built,
                 other |-> bAddr],
                [panic |-> NoPanic, result |-> Equal(ret, bAddr)])

\* s := a.String()
CallString ==
    /\ QueryReady
    /\ DoQuery([op |-> "String", recv |-> ret, built |-> Built],
               String(ret))

\* New for the queries
CallNewQuery ==
    \E coords \in QueryArgs : DoNew(coords, TRUE)

NextQuery ==
    \/ CallNewQuery
    \/ CallAt
    \/ CallCoordsSlice
    \/ CallContains
    \/ CallInRange
    \/ CallIsZero
    \/ CallEqual
    \/ CallString

SpecQuery == Init /\ [][NextQuery]_vars

\* coordinate lists for the keys of a map: lists of zeros of three lengths
\* and two lists of the same length
MapKeys == {<< >>, <<0>>, <<0, 0>>, <<1, 2, 3>>, <<4, 5, 6>>}

\* the values stored in the map
MapVals == {1, 2}

\* a plausible slip: a key without the dimension count of the header
KeyOfPayloadOnly(coords) ==
    [New(coords).addr EXCEPT ![0] = @ \ dimsMask]

\* the key New(coords...) of a map[Addr]V
KeyOf(coords) == New(coords).addr

\* the entries of mp whose key is not key: Go compares the keys with ==
WithoutKey(mp, key) == {e \in mp : ~Equal(e[1], key)}

\* m[New(coords...)] = value
MapWrite ==
    \E coords \in MapKeys, value \in MapVals :
        /\ call' = [op |-> "MapWrite", coords |-> coords, value |-> value,
                    replaced |-> (\E e \in m : Equal(e[1], KeyOf(coords)))]
        /\ m' = WithoutKey(m, KeyOf(coords)) \cup {<<KeyOf(coords), value>>}
        /\ written' = {e \in written : e[1] # coords}
                          \cup {<<coords, value>>}
        /\ res' = NoResult
        /\ UNCHANGED <<a, ret, err, prev, chain, aside>>

\* delete(m, New(coords...))
MapDelete ==
    \E coords \in MapKeys :
        /\ call' = [op |-> "MapDelete", coords |-> coords]
        /\ m' = WithoutKey(m, KeyOf(coords))
        /\ written' = {e \in written : e[1] # coords}
        /\ res' = NoResult
        /\ UNCHANGED <<a, ret, err, prev, chain, aside>>

\* v, ok := m[New(coords...)]
MapLookup ==
    \E coords \in MapKeys :
        /\ call' = [op |-> "MapLookup", coords |-> coords]
        /\ res' = IF \E e \in m : Equal(e[1], KeyOf(coords))
                  THEN [ok |-> TRUE,
                        value |-> (CHOOSE e \in m :
                                      Equal(e[1], KeyOf(coords)))[2]]
                  ELSE [ok |-> FALSE, value |-> 0]
        /\ UNCHANGED <<a, ret, err, prev, chain, m, written, aside>>

NextMap == MapWrite \/ MapDelete \/ MapLookup

SpecMap == Init /\ [][NextMap]_vars

----------------------------------------------------------------------------
(* A caller that decodes one address after another into one buffer *)

\* lengths of the buffers the caller makes: empty, shorter than some of the
\* addresses, and the MaxDimensions of the tests and the README
BufLens == {0, 2, MaxDimensions}

\* argument lists of New for the addresses decoded into the buffer: those of
\* TestCoordsSlice_ReusableBuffer, the empty list, one coordinate, and full
\* lists
ReuseArgs ==
    {<<1, 2, 3>>, <<100, 200>>, <<MaxCoordValue, 0, MaxCoordValue>>,
     << >>, <<7>>, Pattern(MaxDimensions, MaxCoordValue, 1),
     Pattern(MaxDimensions, 0, 0)}

\* buf := make([]int, n)
MakeBuf ==
    \E n \in BufLens :
        /\ buffer' = [k \in 1..n |-> 0]
        /\ call' = [op |-> "make", n |-> n]
        /\ res' = NoResult
        /\ err' = NoPanic
        /\ UNCHANGED <<a, ret, prev, chain, m, written, lst, threads, loop>>

\* addr := New(coords...); got := addr.CoordsSlice(buf), with the buffer as
\* the calls before left it
CallCoordsSliceReuse ==
    /\ err = NoPanic
    /\ call.op # "none"
    /\ \E coords \in ReuseArgs :
        \E addr \in {New(coords).addr} :
            LET ac == Coords(addr)
                out == CoordsSliceDecoded(ac, buffer)
            IN  /\ call' = [op |-> "CoordsSlice", recv |-> addr,
                            built |-> coords, before |-> buffer]
                /\ err' = out.panic
                /\ res' = IF out.panic = NoPanic
                          THEN CoordsSliceReturns(ac, buffer)
                          ELSE NoResult
                /\ buffer' = CoordsSliceStores(ac, buffer)
                /\ ret' = addr
                /\ a' = ReceiverAfter(addr, addr)
                /\ UNCHANGED <<prev, chain, m, written, lst, threads, loop>>

NextBuf == MakeBuf \/ CallCoordsSliceReuse

SpecBuf == Init /\ [][NextBuf]_vars

----------------------------------------------------------------------------
(* A chain of transformer calls, mirrored by operations on the list of     *)
(* coordinates the chain started from                                      *)

\* argument lists of New that start a mirrored chain
ChainSeeds ==
    {<< >>, <<1, 2>>, <<1, 2, 3>>,
     Pattern(MaxDimensions - 1, MaxCoordValue, 1)}

\* argument lists of Append in a mirrored chain
ChainAppends == {<< >>, <<4>>, <<3, 4, 5>>, <<-1>>}

\* arguments fromAddr, toAddr of Slice in a mirrored chain
ChainSlices == {<<0, 2>>, <<1, 3>>, <<1, 1>>, <<2, 1>>, <<1, 4>>}

\* arguments dimIdx, value of With in a mirrored chain
ChainWiths == {<<0, 99>>, <<1, 99>>, <<2, 0>>, <<MaxDimensions, 1>>}

\* the list operation that corresponds to a successful call c, applied to
\* the list s: concatenation, sub-list [from, to), replacement of element i
ListApply(c, s) ==
    CASE c.op = "Append" -> s \o c.coords
      [] c.op = "Slice" -> SubSeq(s, c.from + 1, c.to)
      [] c.op = "With" -> [s EXCEPT ![c.dimIdx + 1] = c.value]

\* the list after the first n of the operations ops, starting from base
RECURSIVE ListAfter(_, _, _)
ListAfter(base, ops, n) ==
    IF n = 0 THEN base ELSE ListApply(ops[n], ListAfter(base, ops, n - 1))

\* the mirror once call c has returned out: a call that panics ends the chain
\* and has no list operation
Mirror(c, out) ==
    IF out.panic # NoPanic
    THEN lst
    ELSE [base |-> lst.base, ops |-> Append(lst.ops, c),
          now |-> ListApply(c, lst.now)]

\* call c on the address the last call returned, with outcome out
DoChain(c, out) ==
    /\ call' = [c EXCEPT !.recv = ret]
    /\ ret' = out.addr
    /\ err' = out.panic
    /\ a' = ReceiverAfter(ret, out.addr)
    /\ prev' = [op |-> "none"]
    /\ chain' = chain + 1
    /\ lst' = Mirror(c, out)
    /\ UNCHANGED <<res, m, written, buffer, threads, loop>>

\* addr := New(coords...), the start of a mirrored chain
ChainNew ==
    \E coords \in ChainSeeds :
        \E out \in {New(coords)} :
            /\ call' = [op |-> "New", coords |-> coords]
            /\ ret' = out.addr
            /\ err' = out.panic
            /\ a' = ZeroAddr
            /\ prev' = [op |-> "none"]
            /\ chain' = 0
            /\ lst' = [base |-> coords, ops |-> << >>, now |-> coords]
            /\ UNCHANGED <<res, m, written, buffer, threads, loop>>

\* addr = addr.Append(coords...)
ChainAppend ==
    /\ err = NoPanic
    /\ Len(lst.ops) < MaxOps
    /\ \E coords \in ChainAppends :
        DoChain([op |-> "Append", recv |-> ZeroAddr, coords |-> coords],
                AddrAppend(ret, coords))

\* addr = addr.Slice(fromAddr, toAddr)
ChainSlice ==
    /\ err = NoPanic
    /\ Len(lst.ops) < MaxOps
    /\ \E ft \in ChainSlices :
        DoChain([op |-> "Slice", recv |-> ZeroAddr,
                 from |-> ft[1], to |-> ft[2]],
                Slice(ret, ft[1], ft[2]))

\* addr = addr.With(dimIdx, value)
ChainWith ==
    /\ err = NoPanic
    /\ Len(lst.ops) < MaxOps
    /\ \E iv \in ChainWiths :
        DoChain([op |-> "With", recv |-> ZeroAddr,
                 dimIdx |-> iv[1], value |-> iv[2]],
                With(ret, iv[1], iv[2]))

NextChain == ChainNew \/ ChainAppend \/ ChainSlice \/ ChainWith

SpecChain == Init /\ [][NextChain]_vars

----------------------------------------------------------------------------
(* A caller that builds Addr values by hand, as the exported array type     *)
(* allows (Addr{13, 0, 0, 0}), and calls the operations on them             *)

\* the set bits of the 4-bit header that reads as h
HeaderBits(h) == {b \in 0..(dimsBits - 1) : (h \div 2^b) % 2 = 1}

\* the Addr with header h and the payload bits set at the offsets in
\* payload, each from dimsBits to 4 * 64 - 1
RawAddr(h, payload) ==
    [w \in 0..(AddrWords - 1) |->
        {BitInWord(q) : q \in {r \in HeaderBits(h) \cup payload :
                                ArrayIdx(r) = w}}]

\* payloads of the hand-built values: none, the lowest bit, a bit in each
\* word, the highest bit
RawPayloads == {{}, {4}, {16, 70, 200}, {255}}

\* every header the four bits can hold, with each payload
RawAddrs == {RawAddr(h, payload) : h \in 0..(2^dimsBits - 1),
                                   payload \in RawPayloads}

\* the operations called on a hand-built value
RawOps ==
    {"Dims", "Coords", "At", "CoordsSlice", "Contains", "InRange", "IsZero",
     "String", "Equal", "Append", "Slice", "With"}

\* a := Addr{w0, w1, w2, w3}
RawBuild ==
    \E addr \in RawAddrs :
        /\ call' = [op |-> "Addr", recv |-> addr]
        /\ ret' = addr
        /\ a' = addr
        /\ err' = NoPanic
        /\ res' = NoResult
        /\ UNCHANGED <<prev, chain, m, written, aside>>

\* a call on the hand-built value a that returns out.result or panics
RawQuery(c, out) ==
    /\ call.op # "none"
    /\ call' = c
    /\ res' = out.result
    /\ err' = out.panic
    /\ ret' = a
    /\ a' = ReceiverAfter(a, a)
    /\ UNCHANGED <<prev, chain, m, written, aside>>

\* a transformer call on the hand-built value a
RawTransform(c, out) ==
    /\ call.op # "none"
    /\ call' = c
    /\ res' = NoResult
    /\ err' = out.panic
    /\ ret' = out.addr
    /\ a' = ReceiverAfter(a, out.addr)
    /\ UNCHANGED <<prev, chain, m, written, aside>>

\* d := a.Dims()
RawDims ==
    RawQuery([op |-> "Dims", recv |-> a],
             [panic |-> NoPanic, result |-> Dims(a)])

\* coords, dims := a.Coords()
RawCoords ==
    RawQuery([op |-> "Coords", recv |-> a],
             [panic |-> Coords(a).panic,
              result |-> ArrayPrefix(Coords(a).coords, MaxDimensions)])

\* v := a.At(dimIdx)
RawAt ==
    \E dimIdx \in {0, MaxDimensions} :
        RawQuery([op |-> "At", recv |-> a, dimIdx |-> dimIdx],
                 At(a, dimIdx))

\* s := a.CoordsSlice(buf), with a buffer of the length of the header range
RawCoordsSlice ==
    \E buf \in {StringBuf, [k \in 1..(2^dimsBits) |-> 0]} :
        RawQuery([op |-> "CoordsSlice", recv |-> a, buf |-> buf],
                 CoordsSlice(a, buf))

\* ok := b.Contains(a), for b the zero value and a itself
RawContains ==
    \E bAddr \in {ZeroAddr, a} :
        RawQuery([op |-> "Contains", recv |-> bAddr, other |-> a],
                 Contains(bAddr, a))

\* ok := a.InRange(ranges...)
RawInRange ==
    \E ranges \in {<< >>, <<(<<0, 1>>)>>} :
        RawQuery([op |-> "InRange", recv |-> a, ranges |-> ranges],
                 InRange(a, ranges))

\* ok := a.IsZero()
RawIsZero == RawQuery([op |-> "IsZero", recv |-> a], IsZero(a))

\* s := a.String()
RawString == RawQuery([op |-> "String", recv |-> a], String(a))

\* ok := a.Equal(Addr{})
RawEqual ==
    RawQuery([op |-> "Equal", recv |-> a, other |-> ZeroAddr],
             [panic |-> NoPanic, result |-> Equal(a, ZeroAddr)])

\* b := a.Append(coords...)
RawAppend ==
    \E coords \in {<< >>, <<1>>} :
        RawTransform([op |-> "Append", recv |-> a, coords |-> coords],
                     AddrAppend(a, coords))

\* b := a.Slice(0, toAddr)
RawSlice ==
    \E toAddr \in {0, 1} :
        RawTransform([op |-> "Slice", recv |-> a, from |-> 0, to |-> toAddr],
                     Slice(a, 0, toAddr))

\* b := a.With(0, value)
RawWith ==
    \E value \in {0, 1} :
        RawTransform([op |-> "With", recv |-> a, dimIdx |-> 0,
                      value |-> value],
                     With(a, 0, value))

NextRaw ==
    \/ RawBuild
    \/ RawDims
    \/ RawCoords
    \/ RawAt
    \/ RawCoordsSlice
    \/ RawContains
    \/ RawInRange
    \/ RawIsZero
    \/ RawString
    \/ RawEqual
    \/ RawAppend
    \/ RawSlice
    \/ RawWith

SpecRaw == Init /\ [][NextRaw]_vars

----------------------------------------------------------------------------
(* The loops of the operations, run one iteration at a time.  A call is the *)
(* sequence of its loops (its plan): the nested loops of New and Coords,    *)
(* which are run on the data, and the single loops over a slice, of which   *)
(* the iterations are counted.                                              *)

\* the nested loops of New over coords
PhaseNew(coords) == [coords |-> coords, phase |-> "New"]

\* the nested loops of Coords over addr
PhaseCoords(addr) == [addr |-> addr, phase |-> "Coords"]

\* a loop of at most n iterations; early says whether an iteration can return
PhaseScan(n, early) == [n |-> n, phase |-> "scan", early |-> early]

\* a call of panic
PhasePanic == [phase |-> "panic"]

\* New: the test on the length, the loop that validates the coordinates up
\* to the first offender, the nested loops
PlanNew(coords) ==
    IF Len(coords) > MaxDimensions
    THEN <<PhasePanic>>
    ELSE IF OutOfRange(coords) # {}
    THEN <<PhaseScan(FirstOutOfRange(coords), FALSE), PhasePanic>>
    ELSE <<PhaseScan(Len(coords), FALSE), PhaseNew(coords)>>

\* the loops of call c, in the order the code runs them
PlanOf(c) ==
    LET ac == Coords(c.recv)
        own == ArrayPrefix(ac.coords, ac.dims)
    IN  CASE c.op = "New" -> PlanNew(c.coords)
          [] c.op = "Coords" -> <<PhaseCoords(c.recv)>>
          [] c.op = "CoordsSlice" ->
                <<PhaseCoords(c.recv)>>
                    \o (IF Len(c.buf) < ac.dims
                        THEN <<PhasePanic>>
                        ELSE <<PhaseScan(ac.dims, FALSE)>>)
          [] c.op = "At" ->
                <<PhaseCoords(c.recv)>>
                    \o (IF c.dimIdx < 0 \/ c.dimIdx >= ac.dims
                        THEN <<PhasePanic>> ELSE << >>)
          [] c.op = "IsZero" ->
                <<PhaseCoords(c.recv), PhaseScan(ac.dims, TRUE)>>
          [] c.op = "Contains" ->
                IF Dims(c.recv) > Dims(c.other)
                THEN << >>
                ELSE <<PhaseCoords(c.recv), PhaseCoords(c.other),
                       PhaseScan(Dims(c.recv), TRUE)>>
          [] c.op = "InRange" ->
                <<PhaseCoords(c.recv),
                  PhaseScan(IF Len(c.ranges) > ac.dims
                            THEN ac.dims + 1 ELSE Len(c.ranges), TRUE)>>
          [] c.op = "Append" ->
                <<PhaseCoords(c.recv), PhaseScan(ac.dims, FALSE)>>
                    \o PlanNew(own \o c.coords)
          [] c.op = "Slice" ->
                <<PhaseCoords(c.recv)>>
                    \o (IF c.from < 0 \/ c.to > ac.dims \/ c.from > c.to
                        THEN <<PhasePanic>>
                        ELSE <<PhaseScan(c.to - c.from, FALSE)>>
                                \o PlanNew(SubSeq(own, c.from + 1, c.to)))
          [] c.op = "With" ->
                <<PhaseCoords(c.recv)>>
                    \o (IF c.dimIdx < 0 \/ c.dimIdx >= ac.dims
                        THEN <<PhasePanic>>
                        ELSE <<PhaseScan(ac.dims, FALSE)>>
                                \o PlanNew([own EXCEPT
                                                ![c.dimIdx + 1] = c.value]))

\* argument lists of New for the loops: no coordinate, one, two, the most,
\* one too many, one out of range
LoopArgs ==
    {<< >>, <<1>>, <<MaxCoordValue, 1>>,
     Pattern(MaxDimensions, MaxCoordValue, 1),
     Pattern(MaxDimensions + 1, 0, 0), <<1, -1>>}

\* the addresses the loops of Coords run on: those New builds from LoopArgs,
\* and values built by hand with a header above MaxDimensions
LoopAddrs ==
    {New(coords).addr : coords \in LoopArgs}
        \cup {RawAddr(13, {}), RawAddr(13, {16}), RawAddr(15, {255})}

\* the calls of which the loops are run
LoopCalls ==
    {[coords |-> coords, op |-> "New"] : coords \in LoopArgs}
        \cup {[op |-> "Coords", recv |-> addr] : addr \in LoopAddrs}
        \cup {[buf |-> buf, op |-> "CoordsSlice",
               recv |-> New(<<MaxCoordValue, 1>>).addr] :
                    buf \in {<<0>>, StringBuf}}
        \cup {[dimIdx |-> dimIdx, op |-> "At",
               recv |-> New(<<MaxCoordValue, 1>>).addr] : dimIdx \in {1, 2}}
        \cup {[op |-> "IsZero", recv |-> New(coords).addr] :
                    coords \in {<<0, 0>>, <<0, 1>>}}
        \cup {[op |-> "Contains", recv |-> New(ab[1]).addr,
               other |-> New(ab[2]).addr] :
                    ab \in {<<(<<1>>), (<<1, 2>>)>>,
                            <<(<<1, 2>>), (<<1>>)>>}}
        \cup {[ranges |-> ranges, op |-> "InRange",
               recv |-> New(<<1, 2>>).addr] :
                    ranges \in {<< >>, <<(<<0, 0>>), (<<1, 1>>), (<<2, 2>>)>>}}
        \cup {[coords |-> <<1>>, op |-> "Append", recv |-> New(coords).addr] :
                    coords \in {<<1, 2>>,
                                Pattern(MaxDimensions, MaxCoordValue, 1)}}
        \cup {[from |-> ft[1], to |-> ft[2], op |-> "Slice",
               recv |-> New(<<1, 2, 3>>).addr] :
                    ft \in {<<1, 3>>, <<1, 0>>}}
        \cup {[value |-> 5, dimIdx |-> dimIdx, op |-> "With",
               recv |-> New(<<1, 2, 3>>).addr] : dimIdx \in {1, 3}}

\* the call c has returned
LoopDone(c) == [pc |-> "done", call |-> c]

\* the call c has panicked
LoopPanicked(c) == [pc |-> "panicked", call |-> c]

\* the call c reaches the first loop of plan: the loop variables as they are
\* before the first test (var addr Addr; addr[0] = uint64(len(coords)) in
\* New, var coords [MaxDimensions]int in Coords)
StartPhase(c, plan) ==
    IF plan = << >>
    THEN LoopDone(c)
    ELSE LET h == Head(plan)
         IN  CASE h.phase = "panic" -> LoopPanicked(c)
               [] h.phase = "scan" ->
                    [pc |-> "scan", call |-> c, plan |-> Tail(plan),
                     n |-> h.n, early |-> h.early, i |-> 0]
               [] h.phase = "New" ->
                    [pc |-> "outer", call |-> c, plan |-> Tail(plan),
                     phase |-> "New", dims |-> Len(h.coords),
                     coords |-> h.coords,
                     addr |-> [ZeroAddr EXCEPT ![0] = Uint64(Len(h.coords))],
                     bitPos |-> 0, dimIdx |-> 0, steps |-> 0]
               [] h.phase = "Coords" ->
                    [pc |-> "outer", call |-> c, plan |-> Tail(plan),
                     phase |-> "Coords", dims |-> Dims(h.addr),
                     coords |-> [k \in 0..(MaxDimensions - 1) |-> 0],
                     addr |-> h.addr,
                     bitPos |-> 0, dimIdx |-> 0, steps |-> 0]

\* a plausible slip: bitPos <= BitsPerCoord in place of range BitsPerCoord
OuterBoundInclusive == BitsPerCoord + 1

\* for bitPos := range BitsPerCoord
OuterBound == BitsPerCoord

\* the body of the inner loop of New
NewBody(l) ==
    LET bit == Bit(l.coords[l.dimIdx + 1], l.bitPos)
        encodedBitPos == EncodedBitPos(l.bitPos, l.dims, l.dimIdx)
    IN  IF bit = 1 /\ ArrayIdx(encodedBitPos) >= AddrWords
        THEN LoopPanicked(l.call)
        ELSE [l EXCEPT
                !.addr = IF bit = 1
                         THEN [@ EXCEPT ![ArrayIdx(encodedBitPos)] =
                                            @ \cup {BitInWord(encodedBitPos)}]
                         ELSE @,
                !.dimIdx = @ + 1,
                !.steps = @ + 1]

\* the body of the inner loop of Coords: a[arrayIdx] is read in every
\* iteration, coords[dimIdx] is written when the bit is set
CoordsBody(l) ==
    LET encodedBitPos == CoordsBitPos(l.bitPos, l.dims, l.dimIdx)
    IN  IF ArrayIdx(encodedBitPos) >= AddrWords
        THEN LoopPanicked(l.call)
        ELSE IF ~TestBit(l.addr, encodedBitPos)
        THEN [l EXCEPT !.dimIdx = @ + 1, !.steps = @ + 1]
        ELSE IF l.dimIdx >= MaxDimensions
        THEN LoopPanicked(l.call)
        ELSE [l EXCEPT !.coords[l.dimIdx] = @ + 2^l.bitPos,
                       !.dimIdx = @ + 1,
                       !.steps = @ + 1]

\* a call starts, once the call before has ended
LoopCall ==
    /\ loop.pc \in {"idle", "done", "panicked"}
    /\ \E c \in LoopCalls : loop' = StartPhase(c, PlanOf(c))
    /\ UNCHANGED <<a, call, ret, err, prev, chain, res, m, written, buffer,
                   lst, threads>>

\* the test of the outer loop
OuterTest ==
    /\ loop.pc = "outer"
    /\ loop' = IF loop.bitPos < OuterBound
               THEN [loop EXCEPT !.pc = "inner", !.dimIdx = 0]
               ELSE [loop EXCEPT !.pc = "loopend"]
    /\ UNCHANGED <<a, call, ret, err, prev, chain, res, m, written, buffer,
                   lst, threads>>

\* the test of the inner loop (for dimIdx := range dims) and, when it
\* passes, the body
InnerStep ==
    /\ loop.pc = "inner"
    /\ loop' = IF loop.dimIdx >= loop.dims
               THEN [loop EXCEPT !.pc = "outer", !.bitPos = @ + 1]
               ELSE IF loop.phase = "New"
               THEN NewBody(loop)
               ELSE CoordsBody(loop)
    /\ UNCHANGED <<a, call, ret, err, prev, chain, res, m, written, buffer,
                   lst, threads>>

\* the nested loops are over: the call goes on with what follows them
PhaseEnd ==
    /\ loop.pc = "loopend"
    /\ loop' = StartPhase(loop.call, loop.plan)
    /\ UNCHANGED <<a, call, ret, err, prev, chain, res, m, written, buffer,
                   lst, threads>>

\* the test of a loop over a slice, and an iteration that falls through
ScanStep ==
    /\ loop.pc = "scan"
    /\ loop' = IF loop.i < loop.n
               THEN [loop EXCEPT !.i = @ + 1]
               ELSE StartPhase(loop.call, loop.plan)
    /\ UNCHANGED <<a, call, ret, err, prev, chain, res, m, written, buffer,
                   lst, threads>>

\* an iteration that returns (IsZero, Contains, InRange)
ScanReturn ==
    /\ loop.pc = "scan"
    /\ loop.early
    /\ loop.i < loop.n
    /\ loop' = LoopDone(loop.call)
    /\ UNCHANGED <<a, call, ret, err, prev, chain, res, m, written, buffer,
                   lst, threads>>

\* the steps of a running call
LoopStep ==
    OuterTest \/ InnerStep \/ PhaseEnd \/ ScanStep \/ ScanReturn

NextLoop == LoopCall \/ LoopStep

\* a call that has started keeps running: the operations are synchronous
\* and never suspend
SpecLoop == Init /\ [][NextLoop]_vars /\ WF_vars(LoopStep)

----------------------------------------------------------------------------
(* Goroutines that call the operations on one shared Addr variable at the  *)
(* same time.  Every method has the value receiver (a Addr): a call copies  *)
(* the four words of the variable, one after the other with no              *)
(* synchronisation, and then works on its copy.                             *)

Threads == 1..NumThreads

\* argument lists of New for the shared address: that of TestAt_Basic, and
\* one whose coordinates differ in every bit
ParSeeds == {<<10, 20, 30>>, <<MaxCoordValue, 0>>}

\* the calls the goroutines make, each with its own arguments and, for
\* CoordsSlice, a buffer of its own
ParCalls ==
    {[op |-> "Dims"], [op |-> "Coords"], [op |-> "IsZero"]}
        \cup {[dimIdx |-> 1, op |-> "At"]}
        \cup {[buf |-> <<0, 0, 0>>, op |-> "CoordsSlice"]}
        \cup {[op |-> "Contains", other |-> New(<<10, 20>>).addr]}
        \cup {[ranges |-> <<(<<0, 10>>), (<<20, -1>>)>>, op |-> "InRange"]}
        \cup {[op |-> "Equal", other |-> New(<<10, 20, 30>>).addr]}
        \cup {[coords |-> <<40>>, op |-> "Append"]}
        \cup {[from |-> 0, to |-> 2, op |-> "Slice"]}
        \cup {[value |-> 99, dimIdx |-> 1, op |-> "With"]}

\* what call c on the receiver recv gives: its panic, and the value or the
\* Addr it returns
ParApply(c, recv) ==
    CASE c.op = "Dims" -> [panic |-> NoPanic, result |-> Dims(recv)]
      [] c.op = "Coords" ->
            [panic |-> Coords(recv).panic,
             result |-> <<Coords(recv).coords, Coords(recv).dims>>]
      [] c.op = "IsZero" -> IsZero(recv)
      [] c.op = "At" -> At(recv, c.dimIdx)
      [] c.op = "CoordsSlice" -> CoordsSlice(recv, c.buf)
      [] c.op = "Contains" -> Contains(recv, c.other)
      [] c.op = "InRange" -> InRange(recv, c.ranges)
      [] c.op = "Equal" ->
            [panic |-> NoPanic, result |-> Equal(recv, c.other)]
      [] c.op = "Append" ->
            [panic |-> AddrAppend(recv, c.coords).panic,
             result |-> AddrAppend(recv, c.coords).addr]
      [] c.op = "Slice" ->
            [panic |-> Slice(recv, c.from, c.to).panic,
             result |-> Slice(recv, c.from, c.to).addr]
      [] c.op = "With" ->
            [panic |-> With(recv, c.dimIdx, c.value).panic,
             result |-> With(recv, c.dimIdx, c.value).addr]

\* a goroutine that has not made its call
ThreadIdle == [pc |-> "idle"]

\* addr := New(coords...), the shared variable, before the goroutines start
InitPar ==
    /\ \E coords \in ParSeeds :
        /\ call = [op |-> "New", coords |-> coords]
        /\ ret = New(coords).addr
        /\ a = New(coords).addr
    /\ err = NoPanic
    /\ prev = [op |-> "none"]
    /\ chain = 0
    /\ res = NoResult
    /\ m = {}
    /\ written = {}
    /\ buffer = << >>
    /\ lst = NoList
    /\ threads = [t \in Threads |-> ThreadIdle]
    /\ loop = NoLoop

\* goroutine t makes a call: the receiver is about to be copied
ParCall(t) ==
    /\ threads[t].pc = "idle"
    /\ \E c \in ParCalls :
        threads' = [threads EXCEPT ![t] =
                        [pc |-> "copy", call |-> c, recv |-> ZeroAddr,
                         w |-> 0]]
    /\ UNCHANGED <<a, call, ret, err, prev, chain, res, m, written, buffer,
                   lst, loop>>

\* goroutine t copies word w of the shared variable, not the last, into its
\* receiver
ParCopy(t) ==
    /\ threads[t].pc = "copy"
    /\ threads[t].w < AddrWords - 1
    /\ threads' = [threads EXCEPT ![t] =
                    [@ EXCEPT !.recv[threads[t].w] = a[threads[t].w],
                              !.w = @ + 1]]
    /\ UNCHANGED <<a, call, ret, err, prev, chain, res, m, written, buffer,
                   lst, loop>>

\* goroutine t copies the last word, runs the method on its copy and
\* returns; a transformer's caller has its variable as ReceiverAfter leaves
\* it
ParRun(t) ==
    /\ threads[t].pc = "copy"
    /\ threads[t].w = AddrWords - 1
    /\ LET c == threads[t].call
           recv == [threads[t].recv EXCEPT ![AddrWords - 1] = a[AddrWords - 1]]
           out == ParApply(c, recv)
       IN  /\ threads' = [threads EXCEPT ![t] =
                            [pc |-> "done", call |-> c, out |-> out]]
           /\ a' = IF c.op \in Transformers
                    THEN ReceiverAfter(a, out.result)
                    ELSE a
    /\ UNCHANGED <<call, ret, err, prev, chain, res, m, written, buffer,
                   lst, loop>>

NextPar == \E t \in Threads : ParCall(t) \/ ParCopy(t) \/ ParRun(t)

SpecPar == InitPar /\ [][NextPar]_vars

----------------------------------------------------------------------------
(* The parallel subtests of TestCoordsSlice_RoundTrip: each decodes its own *)
(* address with CoordsSlice into the one buffer made before the loop, and   *)
(* compares the slice it got afterwards.  The subtests run at the same time *)
(* and nothing orders their accesses to the buffer: every store and every   *)
(* comparison is a step of its own.                                         *)

\* the coords of the test cases
RaceCases ==
    {<<100, 200, 300>>, <<42>>, <<1, 2, 3, 4, 5, 6, 7, 8, 9, 10, 11, 12>>,
     <<500000, 999999, 1048575>>}

\* buf := make([]int, MaxDimensions), before the subtests start
InitRace ==
    /\ a = ZeroAddr
    /\ call = [op |-> "make", n |-> MaxDimensions]
    /\ ret = ZeroAddr
    /\ err = NoPanic
    /\ prev = [op |-> "none"]
    /\ chain = 0
    /\ res = NoResult
    /\ m = {}
    /\ written = {}
    /\ buffer = [k \in 1..MaxDimensions |-> 0]
    /\ lst = NoList
    /\ threads = [t \in Threads |-> ThreadIdle]
    /\ loop = NoLoop

\* subtest t: addr := New(testCase.coords...), and the start of
\* addr.CoordsSlice(buf): coords, dims := a.Coords() and the test on len(buf)
RaceStart(t) ==
    /\ threads[t].pc = "idle"
    /\ \E coords \in RaceCases :
        LET ac == Coords(New(coords).addr)
        IN  threads' = [threads EXCEPT ![t] =
                IF ac.panic # NoPanic \/ Len(buffer) < ac.dims
                THEN [pc |-> "panicked", built |-> coords]
                ELSE [pc |-> "store", built |-> coords,
                      coords |-> ac.coords, dims |-> ac.dims, i |-> 0]]
    /\ UNCHANGED <<a, call, ret, err, prev, chain, res, m, written, buffer,
                   lst, loop>>

\* subtest t: buf[i] = coords[i], one iteration of the loop of CoordsSlice
RaceStore(t) ==
    /\ threads[t].pc = "store"
    /\ threads[t].i < threads[t].dims
    /\ buffer' = [buffer EXCEPT ![threads[t].i + 1] =
                                    threads[t].coords[threads[t].i]]
    /\ threads' = [threads EXCEPT ![t].i = @ + 1]
    /\ UNCHANGED <<a, call, ret, err, prev, chain, res, m, written, lst,
                   loop>>

\* subtest t: the loop is over, got := buf[:dims]
RaceReturn(t) ==
    /\ threads[t].pc = "store"
    /\ threads[t].i >= threads[t].dims
    /\ threads' = [threads EXCEPT ![t] =
                    [pc |-> "returned", built |-> threads[t].built,
                     got |-> CoordsSliceReturns(threads[t], buffer)]]
    /\ UNCHANGED <<a, call, ret, err, prev, chain, res, m, written, buffer,
                   lst, loop>>

\* subtest t: reflect.DeepEqual(got, testCase.coords) reads the elements of
\* got, which are elements of the shared buffer
RaceCompare(t) ==
    /\ threads[t].pc = "returned"
    /\ threads' = [threads EXCEPT ![t] =
                    [pc |-> "compared", built |-> threads[t].built,
                     got |-> threads[t].got,
                     seen |-> ReadSlice(threads[t].got, buffer)]]
    /\ UNCHANGED <<a, call, ret, err, prev, chain, res, m, written, buffer,
                   lst, loop>>

NextRace ==
    \E t \in Threads :
        RaceStart(t) \/ RaceStore(t) \/ RaceReturn(t) \/ RaceCompare(t)

SpecRace == InitRace /\ [][NextRace]_vars

----------------------------------------------------------------------------
(* Properties of the encoder and the decoder, checked under SpecNew *)

\* a sequence New accepts: at most MaxDimensions values, each in
\* [0, MaxCoordValue]
ValidCoords(coords) ==
    /\ Len(coords) <= MaxDimensions
    /\ \A k \in 1..Len(coords) : coords[k] >= 0 /\ coords[k] <= MaxCoordValue

\* same length and elementwise agreement
SameCoords(c1, c2) ==
    /\ Len(c1) = Len(c2)
    /\ \A k \in 1..Len(c1) : c1[k] = c2[k]

\* C1 (round trip): for every sequence c of 0..12 values in [0, 1048575],
\* New(c) returns an address whose Dims is len(c) and whose Coords are count
\* len(c) and, in the first len(c) elements, c itself.
C1_RoundTrip ==
    (call.op = "New" /\ ValidCoords(call.coords)) =>
        /\ err = NoPanic
        /\ Dims(ret) = Len(call.coords)
        /\ \E dec \in {Coords(ret)} :
            /\ dec.panic = NoPanic
            /\ dec.dims = Len(call.coords)
            /\ \A i \in 0..(Len(call.coords) - 1) :
                    dec.coords[i] = call.coords[i + 1]

\* a 12-dimensional address whose coordinates alternate between all bits set
\* and none has been encoded and decodes to 12 dimensions
C1_Witness ==
    /\ call.op = "New"
    /\ Len(call.coords) = MaxDimensions
    /\ call.coords[1] = MaxCoordValue
    /\ call.coords[2] = 0
    /\ err = NoPanic
    /\ Coords(ret).dims = MaxDimensions
    /\ Coords(ret).coords[MaxDimensions - 2] = MaxCoordValue

\* C2 (injectivity): for valid sequences x and y, New(x) == New(y), and
\* New(x).Equal(New(y)), exactly when x and y have the same length and
\* agree elementwise.
C2_Injective ==
    (/\ call.op = "New" /\ prev.op = "New"
     /\ ValidCoords(call.coords) /\ ValidCoords(prev.coords)) =>
        /\ err = NoPanic /\ prev.err = NoPanic
        /\ (ret = prev.ret) <=> SameCoords(call.coords, prev.coords)
        /\ Equal(ret, prev.ret) <=> SameCoords(call.coords, prev.coords)

\* New(0) and then New(0, 0): all coordinates zero, different lengths,
\* different addresses
C2_Witness ==
    /\ call.op = "New" /\ prev.op = "New"
    /\ prev.coords = <<0>> /\ call.coords = <<0, 0>>
    /\ err = NoPanic /\ prev.err = NoPanic
    /\ ret # prev.ret

\* the bit offsets 0..255 that are set in an Addr
SetBits(addr) ==
    UNION {{w * bitsPerWord + b : b \in addr[w]} : w \in 0..(AddrWords - 1)}

\* C3 (bit layout): for a valid sequence c of length d, the low 4 bits of
\* New(c) are d, bit 4 + p*d + i is set exactly when bit p of c[i] is set
\* (0 <= p < 20, 0 <= i < d), and every other bit is clear.
C3_BitLayout ==
    (call.op = "New" /\ ValidCoords(call.coords)) =>
        LET d == Len(call.coords)
        IN  /\ err = NoPanic
            /\ \A b \in 0..3 : (b \in SetBits(ret)) <=> (d \div 2^b) % 2 = 1
            /\ {q \in SetBits(ret) : q >= 4} =
                   UNION {{4 + p * d + i :
                              p \in {r \in 0..19 :
                                        (call.coords[i + 1] \div 2^r) % 2 = 1}} :
                          i \in 0..(d - 1)}

\* New(1, 0, 1, 0, 1): bit 0 of coordinates 0, 2 and 4 lands at offsets 4, 6
\* and 8, the header is 5
C3_Witness ==
    /\ call.op = "New"
    /\ call.coords = <<1, 0, 1, 0, 1>>
    /\ SetBits(ret) = {0, 2, 4, 6, 8}

\* C4 (dimension limit): New fails with the dimension-limit panic exactly
\* when len(coords) > 12, also when the sequence holds an out-of-range value.
C4_DimensionLimit ==
    (call.op = "New") =>
        /\ (err.kind = "max dimensions") <=> (Len(call.coords) > 12)
        /\ (err.kind = "max dimensions") => err = PanicMaxDims

\* New of 13 values of which the first is -1: the dimension-limit panic
C4_Witness ==
    /\ call.op = "New"
    /\ Len(call.coords) = 13
    /\ call.coords[1] = -1
    /\ err.kind = "max dimensions"

\* C5 (coordinate range): for at most 12 values, New fails with the
\* coordinate panic exactly when some value is negative or above 1048575;
\* the panic reports the lowest offending index and its value; otherwise New
\* succeeds.
C5_CoordRange ==
    (call.op = "New" /\ Len(call.coords) <= 12) =>
        LET bad == {i \in 0..(Len(call.coords) - 1) :
                        call.coords[i + 1] < 0 \/ call.coords[i + 1] > 1048575}
        IN  /\ (err.kind = "coord out of range") <=> (bad # {})
            /\ (bad = {}) => err = NoPanic
            /\ (bad # {}) =>
                /\ err.index \in bad
                /\ \A j \in bad : err.index <= j
                /\ err.value = call.coords[err.index + 1]

\* New(0, -1, 0, -1): offenders at indices 1 and 3, index 1 reported
C5_Witness ==
    /\ call.op = "New"
    /\ call.coords = <<0, -1, 0, -1>>
    /\ err = PanicCoord(1, -1)

----------------------------------------------------------------------------
(* Properties of sequences of calls, checked under Spec *)

\* the coordinates of an address as a sequence
Decoded(addr) == ArrayPrefix(Coords(addr).coords, Coords(addr).dims)

\* C6 (well-formed results): every Addr returned by New, Append, Slice or
\* With has a header d <= 12, decodes without a panic to coordinates in
\* [0, 2^20 - 1] and has no bit set at offset 4 + 20*d or above; no call
\* indexes outside the four words; a call that panics returns nothing.
C6_WellFormed ==
    (call.op # "none") =>
        /\ err.kind # "runtime error: index out of range"
        /\ (err = NoPanic) =>
            \E dec \in {Coords(ret)} :
                /\ dec.panic = NoPanic
                /\ dec.dims <= 12
                /\ Dims(ret) = dec.dims
                /\ \A i \in 0..(dec.dims - 1) :
                        dec.coords[i] >= 0 /\ dec.coords[i] <= 2^20 - 1
                /\ \A q \in SetBits(ret) : q < 4 + 20 * dec.dims
                /\ \A q \in SetBits(ret) : q < 244
        /\ (err # NoPanic) => ret = ZeroAddr

\* a 12-dimensional address with all bits of a coordinate set has been
\* returned by a transformer
C6_Witness ==
    /\ call.op \in Transformers
    /\ err = NoPanic
    /\ Dims(ret) = 12
    /\ 243 \in SetBits(ret)

\* C7 (immutability): after a call of Append, Slice or With, successful or
\* not, the receiver is bit for bit what it was before the call, so its
\* Dims and every coordinate are what they were.
C7_ReceiverUnchanged ==
    (call.op \in Transformers) =>
        /\ a = call.recv
        /\ Dims(a) = Dims(call.recv)
        /\ Decoded(a) = Decoded(call.recv)

\* With has returned an address that differs from its receiver
C7_Witness ==
    /\ call.op = "With"
    /\ err = NoPanic
    /\ ret # call.recv
    /\ Dims(call.recv) = 3

\* C8 (Append result): when Dims + len(e) <= 12 and every value of e is in
\* range, a.Append(e...) decodes to the coordinates of a followed by e and
\* has Dims = Dims(a) + len(e).
C8_AppendResult ==
    (/\ call.op = "Append"
     /\ Dims(call.recv) + Len(call.coords) <= 12
     /\ \A k \in 1..Len(call.coords) :
            call.coords[k] >= 0 /\ call.coords[k] <= 1048575) =>
        /\ err = NoPanic
        /\ Dims(ret) = Dims(call.recv) + Len(call.coords)
        /\ Decoded(ret) = Decoded(call.recv) \o call.coords

\* two coordinates at once have been appended to the 0-dimensional address
C8_Witness ==
    /\ call.op = "Append"
    /\ Dims(call.recv) = 0
    /\ call.coords = <<1, MaxCoordValue>>
    /\ err = NoPanic
    /\ Decoded(ret) = <<1, MaxCoordValue>>

\* C9 (Append errors): a.Append(e...) fails with the dimension-limit panic
\* exactly when Dims(a) + len(e) > 12, otherwise with the coordinate panic
\* exactly when some value of e is outside [0, 1048575]; it never returns
\* more than 12 dimensions.
C9_AppendErrors ==
    (call.op = "Append") =>
        LET total == Dims(call.recv) + Len(call.coords)
            bad == \E k \in 1..Len(call.coords) :
                        call.coords[k] < 0 \/ call.coords[k] > 1048575
        IN  /\ (err.kind = "max dimensions") <=> (total > 12)
            /\ (total <= 12) => ((err.kind = "coord out of range") <=> bad)
            /\ (total <= 12 /\ ~bad) => err = NoPanic
            /\ (err = NoPanic) => Dims(ret) <= 12

\* two values, of which one out of range, appended to 11 dimensions: the
\* dimension-limit panic
C9_Witness ==
    /\ call.op = "Append"
    /\ Dims(call.recv) = 11
    /\ call.coords = <<-1, 0>>
    /\ err = PanicMaxDims

\* C10 (Slice validation): a.Slice(from, to) fails with the slice panic,
\* reporting from, to and dims, exactly when not 0 <= from <= to <= Dims(a);
\* otherwise it succeeds.
C10_SliceValidation ==
    (call.op = "Slice") =>
        LET dims == Dims(call.recv)
            inside == 0 <= call.from /\ call.from <= call.to /\ call.to <= dims
        IN  /\ (err.kind = "slice out of range") <=> ~inside
            /\ ~inside => err = PanicSlice(call.from, call.to, dims)
            /\ inside => err = NoPanic

\* the empty slice at the end of a 12-dimensional address
C10_Witness ==
    /\ call.op = "Slice"
    /\ Dims(call.recv) = 12
    /\ call.from = 12 /\ call.to = 12
    /\ err = NoPanic

\* C11 (Slice result): for 0 <= from <= to <= Dims(a), a.Slice(from, to)
\* returns an address of to - from dimensions whose coordinate k is
\* coordinate from + k of a; the empty range gives the 0-dimensional address.
C11_SliceResult ==
    (/\ call.op = "Slice"
     /\ 0 <= call.from /\ call.from <= call.to
     /\ call.to <= Dims(call.recv)) =>
        /\ err = NoPanic
        /\ Dims(ret) = call.to - call.from
        /\ \A k \in 0..(call.to - call.from - 1) :
                Coords(ret).coords[k] = Coords(call.recv).coords[call.from + k]
        /\ (call.from = call.to) => (Dims(ret) = 0 /\ ret = New(<< >>).addr)

\* the last two of three coordinates have been sliced out
C11_Witness ==
    /\ call.op = "Slice"
    /\ Decoded(call.recv) = <<MaxCoordValue, 1, MaxCoordValue>>
    /\ call.from = 1 /\ call.to = 3
    /\ err = NoPanic
    /\ Decoded(ret) = <<1, MaxCoordValue>>

\* C12 (With result): for 0 <= i < Dims(a) and v in [0, 1048575],
\* a.With(i, v) has the dimensions of a, coordinate i equal to v and every
\* other coordinate equal to that of a.
C12_WithResult ==
    (/\ call.op = "With"
     /\ 0 <= call.dimIdx /\ call.dimIdx < Dims(call.recv)
     /\ 0 <= call.value /\ call.value <= 1048575) =>
        /\ err = NoPanic
        /\ Dims(ret) = Dims(call.recv)
        /\ Coords(ret).coords[call.dimIdx] = call.value
        /\ \A k \in 0..(Dims(call.recv) - 1) :
                (k # call.dimIdx) =>
                    Coords(ret).coords[k] = Coords(call.recv).coords[k]

\* the middle coordinate of three has been replaced by 0
C12_Witness ==
    /\ call.op = "With"
    /\ Decoded(call.recv) = <<MaxCoordValue, 1, MaxCoordValue>>
    /\ call.dimIdx = 1 /\ call.value = 0
    /\ err = NoPanic
    /\ Decoded(ret) = <<MaxCoordValue, 0, MaxCoordValue>>

\* C13 (With errors): a.With(i, v) fails with the index panic, reporting i
\* and dims, whenever i < 0 or i >= Dims(a), whatever v is (so always on a
\* 0-dimensional address); with a valid index it fails with the coordinate
\* panic, reporting i and v, exactly when v is outside [0, 1048575].
C13_WithErrors ==
    (call.op = "With") =>
        LET dims == Dims(call.recv)
            validIdx == 0 <= call.dimIdx /\ call.dimIdx < dims
            badValue == call.value < 0 \/ call.value > 1048575
        IN  /\ ~validIdx => err = PanicIndex(call.dimIdx, dims)
            /\ (dims = 0) => err.kind = "dimension index out of range"
            /\ validIdx =>
                    /\ (err.kind = "coord out of range") <=> badValue
                    /\ badValue => err = PanicCoord(call.dimIdx, call.value)
                    /\ ~badValue => err = NoPanic

\* an index and a value both out of range: the index panic
C13_Witness ==
    /\ call.op = "With"
    /\ Dims(call.recv) = 3
    /\ call.dimIdx = 3 /\ call.value = MaxCoordValue + 1
    /\ err = PanicIndex(3, 3)

\* the places (from 0) of the elements of e outside [0, MaxCoordValue]
BadPlaces(e) ==
    {k \in 0..(Len(e) - 1) : e[k + 1] < 0 \/ e[k + 1] > MaxCoordValue}

\* the least element of a non-empty set of integers
Least(S) == CHOOSE k \in S : \A j \in S : k <= j

\* C29 (Append error position): when a.Append(e...) fails with the
\* coordinate panic, e has an element out of range, and with e[k] the first
\* of them the panic reports the index Dims(a) + k and the value e[k]; the
\* reported index is never that of a coordinate of a.
C29_AppendErrorPosition ==
    (call.op = "Append" /\ err.kind = "coord out of range") =>
        LET dims == Dims(call.recv)
            e == call.coords
            bad == BadPlaces(e)
        IN  /\ bad # {}
            /\ err.index = dims + Least(bad)
            /\ err.value = e[Least(bad) + 1]
            /\ err.index >= dims
            /\ err = PanicCoord(dims + Least(bad), e[Least(bad) + 1])

\* Append(0, -1) to an address of three dimensions has reported index 4
C29_Witness ==
    /\ call.op = "Append"
    /\ Dims(call.recv) = 3
    /\ call.coords = <<0, -1>>
    /\ err = PanicCoord(4, -1)

\* an address with what Dims and Coords give for it
WithDecoding(addr) == <<addr, Dims(addr), Coords(addr)>>

\* the addresses New builds from ThirdArgs
ThirdAddrs == {WithDecoding(New(c).addr) : c \in ThirdArgs}

\* the addresses at hand after a call: the one returned, the receiver of a
\* transformer, and ThirdAddrs
AtHand ==
    {WithDecoding(ret)}
        \cup (IF call.op \in Transformers
              THEN {WithDecoding(call.recv)} ELSE {})
        \cup ThirdAddrs

\* C28 (Contains is a partial order): on addresses built by New and the
\* transformers Contains is reflexive, transitive, and antisymmetric with
\* respect to Equal; a.Slice(0, k) contains a for every 0 <= k <= Dims(a),
\* and a contains a.Append(e...) whenever the Append succeeds.
C28_ContainsOrder ==
    LET S == AtHand
        contains(x, y) == ContainsDecoded(x[2], y[2], x[3], y[3])
        le == [x \in S |-> {y \in S : contains(x, y).result}]
    IN  /\ \A x \in S : \A y \in S : contains(x, y).panic = NoPanic
        /\ \A x \in S : x \in le[x]
        /\ \A x \in S : \A y \in le[x] : le[y] \subseteq le[x]
        /\ \A x \in S : \A y \in le[x] :
                (x \in le[y]) => Equal(x[1], y[1])
        /\ (call.op = "New" /\ err = NoPanic) =>
                \A k \in 0..Dims(ret) :
                    /\ Slice(ret, 0, k).panic = NoPanic
                    /\ Contains(Slice(ret, 0, k).addr, ret).result
        /\ (call.op = "Slice" /\ call.from = 0 /\ err = NoPanic) =>
                Contains(ret, call.recv).result
        /\ (call.op = "Append" /\ err = NoPanic) =>
                Contains(call.recv, ret).result

\* two coordinates have been appended to three: the receiver contains the
\* result and the result does not contain the receiver
C28_Witness ==
    /\ err = NoPanic
    /\ call.op = "Append"
    /\ Dims(call.recv) = 3
    /\ Dims(ret) = 5
    /\ Contains(call.recv, ret).result
    /\ ~Contains(ret, call.recv).result

----------------------------------------------------------------------------
(* Properties of the queries, checked under SpecQuery *)

\* C14 (At): for a = New(c), a.At(i) returns c[i] when 0 <= i < len(c) and
\* fails with the index panic, reporting i and the dimensions of a, when
\* i < 0 or i >= len(c); on a 0-dimensional address every index fails.
C14_At ==
    (call.op = "At") =>
        LET c == call.built
            i == call.dimIdx
        IN  /\ (0 <= i /\ i < Len(c)) => (err = NoPanic /\ res = c[i + 1])
            /\ (i < 0 \/ i >= Len(c)) => err = PanicIndex(i, Len(c))
            /\ (Len(c) = 0) => err.kind = "dimension index out of range"

\* the last coordinate of New(1, 2, 3) has been read
C14_Witness ==
    /\ call.op = "At"
    /\ call.built = <<1, 2, 3>>
    /\ call.dimIdx = 2
    /\ err = NoPanic
    /\ res = 3

\* C15 (CoordsSlice): for an address of d dimensions and a buffer of length
\* n, the call fails with the buffer panic, reporting d and n, exactly when
\* n < d; otherwise it returns a slice of length d holding the coordinates in
\* order, equal element by element to the first d elements of Coords.
C15_CoordsSlice ==
    (call.op = "CoordsSlice") =>
        LET d == Dims(call.recv)
            n == Len(call.buf)
        IN  /\ (err.kind = "buf too small") <=> (n < d)
            /\ (n < d) => err = PanicBuf(d, n)
            /\ (n >= d) =>
                    /\ err = NoPanic
                    /\ Len(res) = d
                    /\ res = call.built
                    /\ \A k \in 0..(d - 1) :
                            res[k + 1] = Coords(call.recv).coords[k]

\* a buffer of four elements has received the three coordinates
C15_Witness ==
    /\ call.op = "CoordsSlice"
    /\ call.built = <<1, 2, 3>>
    /\ Len(call.buf) = 4
    /\ err = NoPanic
    /\ res = <<1, 2, 3>>

\* s is a prefix of u
IsPrefix(s, u) == Len(s) <= Len(u) /\ \A k \in 1..Len(s) : s[k] = u[k]

\* C16 (Contains): for a = New(ca) and b = New(cb), a.Contains(b) is true
\* exactly when a has no more dimensions than b and agrees with b on each of
\* its own; so the 0-dimensional address contains every address, and when a
\* is a strict prefix of b, a contains b and b does not contain a.
C16_Contains ==
    (call.op = "Contains") =>
        LET ca == call.built
            cb == call.otherBuilt
        IN  /\ err = NoPanic
            /\ res = (/\ Dims(call.recv) <= Dims(call.other)
                      /\ \A i \in 0..(Dims(call.recv) - 1) :
                            Coords(call.recv).coords[i]
                                = Coords(call.other).coords[i])
            /\ res = IsPrefix(ca, cb)
            /\ (Len(ca) = 0) => res
            /\ (IsPrefix(ca, cb) /\ Len(ca) < Len(cb)) =>
                    /\ res
                    /\ ~Contains(call.other, call.recv).result
            /\ (IsPrefix(cb, ca) /\ Len(cb) < Len(ca)) => ~res

\* New(1, 2) has been found to contain New(1, 2, 3)
C16_Witness ==
    /\ call.op = "Contains"
    /\ call.built = <<1, 2>>
    /\ call.otherBuilt = <<1, 2, 3>>
    /\ err = NoPanic
    /\ res = TRUE

\* C17 (InRange): for a = New(c) and a list r of ranges, a.InRange(r...) is
\* true exactly when for every i below both len(r) and len(c), c[i] is at
\* least r[i].min unless that is -1 and at most r[i].max unless that is -1.
\* The ranges past the dimensions do not count, bounds are inclusive, and a
\* list of wildcards, or no range at all, gives true.
C17_InRange ==
    (call.op = "InRange") =>
        LET c == call.built
            r == call.ranges
            n == IF Len(r) < Len(c) THEN Len(r) ELSE Len(c)
        IN  /\ err = NoPanic
            /\ res = (\A i \in 1..n :
                        /\ (r[i][1] = -1 \/ c[i] >= r[i][1])
                        /\ (r[i][2] = -1 \/ c[i] <= r[i][2]))
            /\ res = InRange(call.recv, SubSeq(r, 1, n)).result
            /\ (\A i \in 1..Len(r) : r[i] = <<-1, -1>>) => res

\* both coordinates of New(1, 2) lie on an inclusive bound
C17_Witness ==
    /\ call.op = "InRange"
    /\ call.built = <<1, 2>>
    /\ call.ranges = <<(<<-1, 1>>), (<<2, -1>>)>>
    /\ err = NoPanic
    /\ res = TRUE

\* C18 (IsZero): for a = New(c), a.IsZero() is true exactly when every
\* element of c is 0; it is true for New() and for the zero value of Addr,
\* whose four words are zero and whose Dims is 0.
C18_IsZero ==
    (call.op = "IsZero") =>
        /\ err = NoPanic
        /\ res = (\A k \in 1..Len(call.built) : call.built[k] = 0)
        /\ (Len(call.built) = 0) => res
        /\ call.zeroValue =>
                /\ \A w \in 0..3 : call.recv[w] = {}
                /\ Dims(call.recv) = 0
                /\ res

\* New(0, 0), whose header is not zero, has been found to be zero
C18_Witness ==
    /\ call.op = "IsZero"
    /\ call.built = <<0, 0>>
    /\ call.recv # ZeroAddr
    /\ err = NoPanic
    /\ res = TRUE

\* C19 (Equal): a.Equal(b) compares the four words exactly, and is
\* reflexive, symmetric and transitive on all Addr values, built by New or
\* not; when it holds, a and b have the same Dims and the same coordinates.
C19_Equal ==
    (call.op = "Equal") =>
        LET x == call.recv
            y == call.other
            others == {x, y, OtherAddr, Dirty(x), Dirty(y), ZeroAddr}
        IN  /\ err = NoPanic
            /\ res = (\A w \in 0..3 : x[w] = y[w])
            /\ res = Equal(x, y)
            /\ \A z \in others : Equal(z, z)
            /\ \A z \in others : Equal(x, z) = Equal(z, x)
            /\ \A z \in others :
                    (Equal(x, y) /\ Equal(y, z)) => Equal(x, z)
            /\ res => /\ Dims(x) = Dims(y)
                      /\ Coords(x).coords = Coords(y).coords

\* two addresses built by two calls of New(1, 2, 3) are equal
C19_Witness ==
    /\ call.op = "Equal"
    /\ call.built = <<1, 2, 3>>
    /\ prev.op = "New"
    /\ prev.coords = <<1, 2, 3>>
    /\ call.other = prev.ret
    /\ res = TRUE

\* the number of decimal digits of n >= 0
NumDigits(n) == CHOOSE l \in 1..10 : n < 10^l /\ (l = 1 \/ n >= 10^(l - 1))

\* the place in the text of the first digit of element k of c (from 1),
\* when the text starts at place 1 with "Addr[" and elements are one space
\* apart
DigitsStart(c, k) ==
    LET start[j \in 1..k] ==
            IF j = 1 THEN 6 ELSE start[j - 1] + NumDigits(c[j - 1]) + 1
    IN  start[k]

\* C21 (String): New(c).String() is "Addr[", the decimal renderings of the
\* elements of c in order with exactly one space between two of them, and
\* "]"; the 0-dimensional address gives "Addr[]", and nothing of the 12-slot
\* buffer past the dimensions shows.
C21_String ==
    (call.op = "String") =>
        LET c == call.built
            d == Len(c)
            total == IF d = 0 THEN 6
                     ELSE DigitsStart(c, d) + NumDigits(c[d])
        IN  /\ err = NoPanic
            /\ Len(res) = total
            /\ SubSeq(res, 1, 5) = <<"A", "d", "d", "r", "[">>
            /\ res[total] = "]"
            /\ \A k \in 1..d :
                    /\ \A j \in 1..NumDigits(c[k]) :
                            res[DigitsStart(c, k) + j - 1]
                                = Digits[((c[k] \div 10^(NumDigits(c[k]) - j))
                                            % 10) + 1]
                    /\ (k < d) =>
                            res[DigitsStart(c, k) + NumDigits(c[k])] = " "
            /\ (d = 0) => res = <<"A", "d", "d", "r", "[", "]">>

\* New(1, 2, 3) has been rendered
C21_Witness ==
    /\ call.op = "String"
    /\ call.built = <<1, 2, 3>>
    /\ err = NoPanic
    /\ res = <<"A", "d", "d", "r", "[", "1", " ", "2", " ", "3", "]">>

----------------------------------------------------------------------------
(* Properties of a map keyed by Addr, checked under SpecMap *)

\* C20 (key collapse): after any writes m[New(c)] = v and deletes, the map
\* holds one entry per coordinate list written and not deleted since, with
\* the value of the last write made with that list, and a lookup with a list
\* that is not among them finds nothing.
C20_KeyCollapse ==
    /\ Cardinality(m) = Cardinality({e[1] : e \in written})
    /\ \A e \in written : <<KeyOf(e[1]), e[2]>> \in m
    /\ \A e \in m : \E w \in written : e = <<KeyOf(w[1]), w[2]>>
    /\ (call.op = "MapLookup") =>
            /\ res.ok <=> (\E w \in written : w[1] = call.coords)
            /\ res.ok => <<call.coords, res.value>> \in written

\* a second write with New(1, 2, 3) has replaced the value of the first,
\* next to an entry for New(4, 5, 6)
C20_Witness ==
    /\ call.op = "MapWrite"
    /\ call.coords = <<1, 2, 3>>
    /\ call.replaced
    /\ call.value = 2
    /\ m = {<<KeyOf(<<1, 2, 3>>), 2>>, <<KeyOf(<<4, 5, 6>>), 1>>}

----------------------------------------------------------------------------
(* Properties of a reused buffer, checked under SpecBuf *)

\* C24 (sequential buffer reuse): every CoordsSlice call made on a buffer of
\* length 12 that earlier calls have filled returns exactly the coordinates
\* of its own address, whatever its dimensions and those of the addresses
\* decoded before; no value an earlier call wrote shows in the result.
C24_SequentialReuse ==
    (call.op = "CoordsSlice" /\ Len(call.before) = 12) =>
        /\ err = NoPanic
        /\ ReadSlice(res, buffer) = call.built
        /\ Len(ReadSlice(res, buffer)) = Dims(call.recv)

\* New(100, 200) has been decoded into a buffer that held the three
\* coordinates of a longer address
C24_Witness ==
    /\ call.op = "CoordsSlice"
    /\ Len(call.before) = 12
    /\ SubSeq(call.before, 1, 3) = <<MaxCoordValue, 0, MaxCoordValue>>
    /\ call.built = <<100, 200>>
    /\ err = NoPanic
    /\ ReadSlice(res, buffer) = <<100, 200>>
    /\ buffer[3] = MaxCoordValue

\* C30 (buffer frame and padding): a successful CoordsSlice call on an
\* address of d dimensions stores into buf[0..d-1] only, leaves buf[d..]
\* as it was and returns buf[:d], a slice of the caller's buffer; a failing
\* call stores nothing; and the array Coords returns is 0 from index d on.
C30_BufferFrame ==
    (call.op = "CoordsSlice") =>
        LET d == Dims(call.recv)
        IN  /\ Len(buffer) = Len(call.before)
            /\ (err = NoPanic) =>
                    /\ \A k \in (d + 1)..Len(buffer) :
                            buffer[k] = call.before[k]
                    /\ res = [low |-> 0, high |-> d]
                    /\ ReadSlice(res, buffer) = SubSeq(buffer, 1, d)
                    /\ \A k \in 1..d :
                            buffer[k] = Coords(call.recv).coords[k - 1]
            /\ (err # NoPanic) =>
                    /\ buffer = call.before
                    /\ err = PanicBuf(d, Len(buffer))
            /\ \A i \in d..(MaxDimensions - 1) :
                    Coords(call.recv).coords[i] = 0

\* New(7) has been decoded into a buffer whose elements past the first held
\* coordinates of an earlier address, and are as they were
C30_Witness ==
    /\ call.op = "CoordsSlice"
    /\ call.built = <<7>>
    /\ Len(call.before) = MaxDimensions
    /\ SubSeq(call.before, 1, 3) = <<1, 2, 3>>
    /\ err = NoPanic
    /\ SubSeq(buffer, 1, 3) = <<7, 2, 3>>

----------------------------------------------------------------------------
(* Properties of mirrored chains, checked under SpecChain *)

\* C25 (canonical form): after New(c) and any sequence of successful Append,
\* Slice and With calls the address is, word for word, New(s) for the list s
\* that the corresponding list operations make of c; so two Appends in a row
\* give what one Append of both argument lists gives, and two Withs in a row
\* on distinct indices give the same address in either order.
C25_CanonicalForm ==
    (err = NoPanic) =>
        LET n == Len(lst.ops)
            before == New(ListAfter(lst.base, lst.ops, n - 2)).addr
            p == lst.ops[n - 1]
            q == lst.ops[n]
        IN  /\ New(lst.now).panic = NoPanic
            /\ ret = New(lst.now).addr
            /\ Equal(ret, New(lst.now).addr)
            /\ lst.now = ListAfter(lst.base, lst.ops, n)
            /\ (n >= 2 /\ p.op = "Append" /\ q.op = "Append") =>
                    ret = AddrAppend(before, p.coords \o q.coords).addr
            /\ (n >= 2 /\ p.op = "With" /\ q.op = "With"
                    /\ p.dimIdx # q.dimIdx) =>
                    ret = With(With(before, q.dimIdx, q.value).addr,
                               p.dimIdx, p.value).addr

\* New(1, 2, 3).With(1, 99).Slice(1, 3) is New(99, 3)
C25_Witness ==
    /\ err = NoPanic
    /\ lst.base = <<1, 2, 3>>
    /\ Len(lst.ops) = 2
    /\ lst.ops[1].op = "With" /\ lst.ops[1].dimIdx = 1
    /\ lst.ops[2].op = "Slice"
    /\ lst.now = <<99, 3>>
    /\ ret = New(<<99, 3>>).addr

----------------------------------------------------------------------------
(* Properties of hand-built values, checked under SpecRaw *)

\* C27 (decoding is safe for every Addr): on any Addr value, those built by
\* hand with a header of 13, 14 or 15 included, Dims, Coords, At, IsZero,
\* Contains, InRange, CoordsSlice, String and the transformers complete
\* without indexing outside the 12 coordinates or the 4 words, that is,
\* without the runtime's index panic.
C27_DecodeSafe ==
    (call.op \in RawOps) => err # PanicRuntime

----------------------------------------------------------------------------
(* Properties of the loops, checked under SpecLoop *)

\* a call is in one of its loops
LoopRunning == loop.pc \in {"outer", "inner", "loopend", "scan"}

\* the call has returned or panicked
LoopFinished == loop.pc \in {"done", "panicked"}

\* the nested loops have run at most 20 inner steps per dimension, and when
\* they are over exactly 20 * d, which is at most 240, with the result of New
\* or Coords in the loop variables
LoopBound ==
    /\ (loop.pc \in {"outer", "inner", "loopend"}) =>
            loop.steps <= 20 * loop.dims
    /\ (loop.pc = "scan") =>
            (loop.i <= loop.n /\ loop.n <= MaxDimensions + 1)
    /\ (loop.pc = "loopend") =>
            /\ loop.steps = 20 * loop.dims
            /\ loop.steps <= 240
            /\ (loop.phase = "New") => loop.addr = New(loop.coords).addr
            /\ (loop.phase = "Coords") =>
                    loop.coords = Coords(loop.addr).coords

\* C26 (bounded termination): every call of New, Coords, CoordsSlice, At,
\* IsZero, Contains, InRange, Append, Slice and With ends, by returning or
\* by a panic; the nested loops of New and of Coords make exactly 20 * d
\* inner steps for an address of d dimensions, so at most 240.
C26_BoundedTermination ==
    /\ []LoopBound
    /\ LoopRunning ~> LoopFinished

\* the loops of Coords have run to their end on an address of 12 dimensions
C26_Witness ==
    /\ loop.pc = "loopend"
    /\ loop.phase = "Coords"
    /\ loop.dims = MaxDimensions
    /\ loop.steps = 240

----------------------------------------------------------------------------
(* Properties of concurrent calls, checked under SpecPar *)

\* what each call gives when it runs alone on the address New built
Alone ==
    {<<coords, c, ParApply(c, New(coords).addr)>> :
        coords \in ParSeeds, c \in ParCalls}

\* C22 (concurrent reads): when goroutines call Dims, Coords, At, IsZero,
\* Contains, InRange, Equal, CoordsSlice with a buffer of their own, and the
\* transformers, on one shared Addr at the same time, every call returns
\* what it returns when run alone, whatever the interleaving, and the shared
\* Addr stays as it was.
C22_ConcurrentReads ==
    /\ a = ret
    /\ \A t \in Threads :
            (threads[t].pc = "done") =>
                <<call.coords, threads[t].call, threads[t].out>> \in Alone

\* two goroutines have finished on New(10, 20, 30): an Append and an At that
\* read 20
C22_Witness ==
    /\ call.coords = <<10, 20, 30>>
    /\ threads[1].pc = "done" /\ threads[2].pc = "done"
    /\ threads[1].call.op = "Append"
    /\ threads[1].out.result = New(<<10, 20, 30, 40>>).addr
    /\ threads[2].call = [dimIdx |-> 1, op |-> "At"]
    /\ threads[2].out = [panic |-> NoPanic, result |-> 20]

----------------------------------------------------------------------------
(* Properties of the shared buffer, checked under SpecRace *)

\* C23 (shared buffer under parallel decode): when CoordsSlice calls on
\* different addresses run at the same time with one and the same buffer,
\* as in the parallel subtests of TestCoordsSlice_RoundTrip, the slice each
\* call returned equals, when its caller reads it, the coordinates of that
\* call's own address, whatever the interleaving.
C23_SharedBuffer ==
    \A t \in Threads :
        (threads[t].pc = "compared") =>
            threads[t].seen = threads[t].built

====
